---- MODULE Spec2Model ----
(***************************************************************************)
(* A model of the StarkEx data-availability committee: the batch validator *)
(* (Committee.run, Committee.validate_data_availability), the batch-info   *)
(* storage keys, and the Merkle commitment it recomputes.                  *)
(***************************************************************************)
EXTENDS Integers, Sequences, FiniteSets, TLC

\* Height of the vault and rollup_vault trees of the modelled configuration.
TreeHeight == 1

\* Number of batches the gateway serves beyond the first one of a run.
MaxBatch == 2

\* Number of times the committee process is killed and started again.
MaxRestarts == 1

(***************************************************************************)
(* Optional values: None is the empty sequence, Some(x) the one-element    *)
(* sequence.                                                               *)
(***************************************************************************)
None == <<>>

Some(x) == <<x>>

Range(s) == {s[i] : i \in DOMAIN s}

(***************************************************************************)
(* Bytes are sequences of integers.  The hash function is collision-free:  *)
(* it is an injective pairing of its two arguments.                        *)
(***************************************************************************)
to_bytes(n) == <<n>>

hash_func(x, y) == <<Len(x)>> \o x \o y

\* Hex strings: the bytes they spell and the case of their letters.
\* bytes.hex() spells lower case; bytes.fromhex() reads either case.
Hex(b) == [bytes |-> b, upper |-> FALSE]

FromHex(s) == s.bytes

ToUpper(s) == [bytes |-> s.bytes, upper |-> TRUE]

OBSOLETE_ORDER_TREE_ROOT == [i \in 1..16 |-> IF i % 2 = 1 THEN 57005 ELSE 48879]

OBSOLETE_ORDER_TREE_ROOT_STR == [bytes |-> OBSOLETE_ORDER_TREE_ROOT, upper |-> TRUE]

(***************************************************************************)
(* Leaf facts.                                                             *)
(***************************************************************************)
VaultState(stark_key, token, balance) ==
    IF balance = 0
    THEN [stark_key |-> 0, token |-> 0, balance |-> 0]
    ELSE [stark_key |-> stark_key, token |-> token, balance |-> balance]

VaultEmpty == VaultState(0, 0, 0)

OrderState(fulfilled_amount) == [fulfilled_amount |-> fulfilled_amount]

OrderEmpty == OrderState(0)

VaultHash(v) ==
    hash_func(hash_func(to_bytes(v.stark_key), to_bytes(v.token)), to_bytes(v.balance))

OrderHash(o) == to_bytes(o.fulfilled_amount)

LeafHash(leaf) ==
    IF "balance" \in DOMAIN leaf THEN VaultHash(leaf) ELSE OrderHash(leaf)

(***************************************************************************)
(* Merkle trees: a tree is (root, height); an inner node fact is the pair  *)
(* of its children's hashes, stored under the hash of the pair.            *)
(***************************************************************************)
MerkleNodeHash(left_node, right_node) == hash_func(left_node, right_node)

\* The children named by the node fact stored under an inner node's hash.
get_children(root) ==
    <<SubSeq(root, 2, 1 + root[1]), SubSeq(root, 2 + root[1], Len(root))>>

\* Roots that pair the leaf's hash with itself at every height.
RECURSIVE empty_tree_roots_FromLeaf(_, _)
empty_tree_roots_FromLeaf(max_height, leaf_fact) ==
    IF max_height = 0
    THEN <<LeafHash(leaf_fact)>>
    ELSE LET roots == empty_tree_roots_FromLeaf(max_height - 1, leaf_fact)
         IN  Append(roots, hash_func(roots[1], roots[1]))

RECURSIVE empty_tree_roots(_, _)
empty_tree_roots(max_height, leaf_fact) ==
    IF max_height = 0
    THEN <<LeafHash(leaf_fact)>>
    ELSE LET roots == empty_tree_roots(max_height - 1, leaf_fact)
         IN  Append(roots, hash_func(roots[Len(roots)], roots[Len(roots)]))

RECURSIVE empty_tree_from(_, _)
empty_tree_from(tree, steps) ==
    IF steps = 0
    THEN tree
    ELSE empty_tree_from(
             [root |-> MerkleNodeHash(tree.root, tree.root), height |-> tree.height + 1],
             steps - 1)

empty_tree(height, leaf_fact) ==
    empty_tree_from([root |-> LeafHash(leaf_fact), height |-> 0], height)

\* update: modifications is a function from leaf indices to leaf facts.  Only the
\* subtrees that hold a modified index are rebuilt; the others keep their root.
RECURSIVE update_node(_, _, _, _)
update_node(root, height, first, modifications) ==
    IF \A i \in DOMAIN modifications : i < first \/ i >= first + 2 ^ height
    THEN root
    ELSE IF height = 0
         THEN LeafHash(modifications[first])
         ELSE LET children == get_children(root)
                  half == 2 ^ (height - 1)
              IN  MerkleNodeHash(
                      update_node(children[1], height - 1, first, modifications),
                      update_node(children[2], height - 1, first + half, modifications))

update(tree, modifications) ==
    [root |-> update_node(tree.root, tree.height, 0, modifications),
     height |-> tree.height]

(***************************************************************************)
(* The committee's configuration: the ordered committee_objects names and  *)
(* the two validation switches (validate_rollup is True, False or None).   *)
(***************************************************************************)
Config(names, validate_orders, validate_rollup) ==
    [names |-> names, validate_orders |-> validate_orders,
     validate_rollup |-> validate_rollup]

committee_objects_info(config) == Range(config.names)

tree_height(object_name) ==
    IF object_name = "order" THEN TreeHeight + 1 ELSE TreeHeight

state_class_empty(object_name) ==
    IF object_name = "order" THEN OrderEmpty ELSE VaultEmpty

(***************************************************************************)
(* CommitteeBatchInfo and its stored form (roots as hex strings).  The     *)
(* oldest stored form holds vaults_root and orders_root instead of         *)
(* merkle_roots.                                                           *)
(***************************************************************************)
CommitteeBatchInfo(merkle_roots, sequence_number) ==
    [merkle_roots |-> merkle_roots, sequence_number |-> sequence_number]

Serialize(batch_info) ==
    [merkle_roots |->
         [n \in DOMAIN batch_info.merkle_roots |-> Hex(batch_info.merkle_roots[n])],
     sequence_number |-> batch_info.sequence_number]

from_v2(data) ==
    IF "merkle_roots" \notin DOMAIN data
       /\ "vaults_root" \in DOMAIN data /\ "orders_root" \in DOMAIN data
    THEN [merkle_roots |-> ("vault" :> data.vaults_root) @@ ("order" :> data.orders_root),
          sequence_number |-> data.sequence_number]
    ELSE data

Deserialize(data) ==
    LET loaded == from_v2(data)
    IN  CommitteeBatchInfo(
            [n \in DOMAIN loaded.merkle_roots |-> FromHex(loaded.merkle_roots[n])],
            loaded.sequence_number)

(***************************************************************************)
(* Storage keys.  storage.new[b] is new_committee_batch_info:<b>,          *)
(* storage.old[b] is committee_batch_info:<b>, storage.next is             *)
(* committee_next_batch_id.                                                *)
(***************************************************************************)
_compute_empty_root(object_name) ==
    empty_tree(tree_height(object_name), state_class_empty(object_name)).root

\* The leaves the operator writes in the modelled state updates.
VaultLeaf == VaultState(1, 1, 1)

OrderLeaf == OrderState(1)

ModifiedLeaf(object_name) ==
    IF object_name = "order" THEN OrderLeaf ELSE VaultLeaf

ModifiedRoot(object_name) ==
    update(empty_tree(tree_height(object_name), state_class_empty(object_name)),
           0 :> ModifiedLeaf(object_name)).root

\* What a committee of an earlier version left under the old keys, for batches
\* -1, 0, 1 and for the batch it was working on when it was replaced: the oldest
\* stored form first, then records without and with a rollup_vault root.
LegacyBatchInfos ==
    << [vaults_root |-> Hex(_compute_empty_root("vault")),
        orders_root |-> Hex(_compute_empty_root("order")), sequence_number |-> -1],
       [vaults_root |-> Hex(ModifiedRoot("vault")),
        orders_root |-> Hex(_compute_empty_root("order")), sequence_number |-> 0],
       Serialize(CommitteeBatchInfo(
           [n \in {"vault", "order", "rollup_vault"} |->
               IF n = "order" THEN _compute_empty_root(n) ELSE ModifiedRoot(n)], 1)),
       Serialize(CommitteeBatchInfo(
           [n \in {"vault", "order", "rollup_vault"} |-> ModifiedRoot(n)], 2)) >>

FirstUpgradedBatch == Len(LegacyBatchInfos) - 2

\* The batch ids of the model: the initial batch -1, the batches stored before the
\* upgrade, the batches the gateway serves, and the one the counter ends at.
BatchIds == -1 .. (FirstUpgradedBatch + MaxBatch)

EmptyStorage ==
    [new |-> [b \in BatchIds |-> None], old |-> [b \in BatchIds |-> None], next |-> None]

set_batch_info(storage, batch_id, value) ==
    [storage EXCEPT !.new[batch_id] = Some(value)]

\* A read of the legacy key that returns the value and does not store it.
get_committee_batch_info_NoCopy(storage, batch_id) ==
    LET batch_info == IF storage.new[batch_id] # None
                      THEN storage.new[batch_id] ELSE storage.old[batch_id]
    IN  [storage |-> storage,
         batch_info |-> IF batch_info = None THEN None
                        ELSE Some(Deserialize(batch_info[1])),
         read_old |-> storage.new[batch_id] = None]

get_committee_batch_info(storage, batch_id) ==
    LET batch_info == storage.new[batch_id]
    IN  IF batch_info # None
        THEN [storage |-> storage, batch_info |-> Some(Deserialize(batch_info[1])),
              read_old |-> FALSE]
        ELSE LET old_info == storage.old[batch_id]
             IN  IF old_info # None
                 THEN [storage |-> set_batch_info(storage, batch_id, old_info[1]),
                       batch_info |-> Some(Deserialize(old_info[1])), read_old |-> TRUE]
                 ELSE [storage |-> storage, batch_info |-> None, read_old |-> TRUE]

\* A read that lets a missing batch info pass.
get_committee_batch_info_or_fail_NoAssert(storage, batch_id) ==
    LET got == get_committee_batch_info(storage, batch_id)
    IN  [ok |-> TRUE, storage |-> got.storage, batch_info |-> got.batch_info]

get_committee_batch_info_or_fail(storage, batch_id) ==
    LET got == get_committee_batch_info(storage, batch_id)
    IN  [ok |-> got.batch_info # None, storage |-> got.storage,
         batch_info |-> got.batch_info]

\* An initial batch info written only when neither key of batch -1 holds one.
compute_initial_batch_info_IfAbsent(storage, config) ==
    IF storage.new[-1] = None /\ storage.old[-1] = None
    THEN set_batch_info(storage, -1,
             Serialize(CommitteeBatchInfo(
                 [n \in committee_objects_info(config) |-> _compute_empty_root(n)], -1)))
    ELSE storage

compute_initial_batch_info(storage, config) ==
    set_batch_info(storage, -1,
        Serialize(CommitteeBatchInfo(
            [n \in committee_objects_info(config) |-> _compute_empty_root(n)], -1)))

UpgradedStorage ==
    [new |-> [b \in BatchIds |-> None],
     old |-> [b \in BatchIds |->
                 IF b + 2 \in DOMAIN LegacyBatchInfos
                 THEN Some(LegacyBatchInfos[b + 2]) ELSE None],
     next |-> Some(FirstUpgradedBatch)]

(***************************************************************************)
(* The availability claim and its signature.                               *)
(***************************************************************************)
hash_availability_claim(vaults_root, vaults_height, trades_root, trades_height, seq_num) ==
    [vaults_root |-> vaults_root, vaults_height |-> vaults_height,
     trades_root |-> trades_root, trades_height |-> trades_height,
     seq_num |-> seq_num]

sign_hash(availability_claim) == [signed |-> availability_claim]

\* A claim that keeps the vault or position name and the order name only.
HashObjectNames_VaultAndOrderOnly(config) ==
    SelectSeq(config.names, LAMBDA name : name \in {"vault", "position", "order"})

HashObjectNames(config) ==
    SelectSeq(config.names, LAMBDA name : name # "rollup_vault")

VaultsObjectName(config) ==
    IF "vault" \in Range(HashObjectNames(config)) THEN "vault" ELSE "position"

\* The rollup_vault root hashed in the place of the vaults root.
ClaimRoots_WithRollup(batch_info, vaults_object_name) ==
    << IF "rollup_vault" \in DOMAIN batch_info.merkle_roots
       THEN batch_info.merkle_roots["rollup_vault"]
       ELSE batch_info.merkle_roots[vaults_object_name],
       batch_info.merkle_roots["order"] >>

ClaimRoots(batch_info, vaults_object_name) ==
    << batch_info.merkle_roots[vaults_object_name], batch_info.merkle_roots["order"] >>

\* [ok, claim]: the assertions of compute_hash_availability_claim, then the hash.
compute_hash_availability_claim(config, batch_info) ==
    LET hash_object_names == HashObjectNames(config)
        vaults_object_name == VaultsObjectName(config)
    IN  IF Len(hash_object_names) # 2
           \/ "order" \notin Range(hash_object_names)
           \/ vaults_object_name \notin DOMAIN batch_info.merkle_roots
           \/ "order" \notin DOMAIN batch_info.merkle_roots
        THEN [ok |-> FALSE, claim |-> None]
        ELSE LET roots == ClaimRoots(batch_info, vaults_object_name)
             IN  [ok |-> TRUE,
                  claim |-> Some(hash_availability_claim(
                      roots[1], tree_height(vaults_object_name),
                      roots[2], tree_height("order"),
                      batch_info.sequence_number))]

(***************************************************************************)
(* Committee.validate_data_availability.  A result holds: ok, the error    *)
(* raised, the storage left behind, the names whose tree update was        *)
(* computed, the batch info written, the signature and the claim returned. *)
(***************************************************************************)
VdaFail(storage, error, computed, batch_info) ==
    [ok |-> FALSE, error |-> error, storage |-> storage, computed |-> computed,
     batch_info |-> batch_info, signature |-> None, availability_claim |-> None]

\* An empty rollup_vault tree put in the place of the previous one.
PrevMerkleRoots_AlwaysEmpty(config, prev_batch_info) ==
    IF "rollup_vault" \in committee_objects_info(config)
    THEN ("rollup_vault" :> _compute_empty_root("rollup_vault"))
             @@ prev_batch_info.merkle_roots
    ELSE prev_batch_info.merkle_roots

\* The previous roots the updates start from: an empty rollup_vault tree is added
\* when rollup_vault is configured and the previous batch info has none.
PrevMerkleRoots(config, prev_batch_info) ==
    IF "rollup_vault" \in committee_objects_info(config)
       /\ "rollup_vault" \notin DOMAIN prev_batch_info.merkle_roots
    THEN prev_batch_info.merkle_roots
             @@ ("rollup_vault" :> _compute_empty_root("rollup_vault"))
    ELSE prev_batch_info.merkle_roots

\* Every configured name validated, whatever the switches say.
validated_object_names_All(config, validate_orders, validate_rollup) ==
    [ok |-> TRUE, names |-> committee_objects_info(config)]

\* [ok, names]: list.remove raises when the name is not configured; the assertion
\* for validate_rollup None raises when rollup_vault is configured.
validated_object_names(config, validate_orders, validate_rollup) ==
    LET all == committee_objects_info(config)
        orders == IF validate_orders THEN all ELSE all \ {"order"}
    IN  IF ~validate_orders /\ "order" \notin all
        THEN [ok |-> FALSE, names |-> {}]
        ELSE IF validate_rollup = "False"
             THEN [ok |-> "rollup_vault" \in orders, names |-> orders \ {"rollup_vault"}]
             ELSE IF validate_rollup = "None"
                  THEN [ok |-> "rollup_vault" \notin orders, names |-> orders]
                  ELSE [ok |-> TRUE, names |-> orders]

\* The declared root taken for the computed one.
compute_merkle_root_Declared(prev_roots, object_name, state_update) ==
    FromHex(state_update.roots[object_name])

compute_merkle_root(prev_roots, object_name, state_update) ==
    update([root |-> prev_roots[object_name], height |-> tree_height(object_name)],
           state_update.objects[object_name]).root

\* The marker recognised only as bytes.hex() would spell it.
IsObsoleteOrderRoot_LowerCase(object_name, expected_root) ==
    object_name = "order" /\ expected_root = Hex(OBSOLETE_ORDER_TREE_ROOT)

IsObsoleteOrderRoot(object_name, expected_root) ==
    object_name = "order" /\ expected_root = OBSOLETE_ORDER_TREE_ROOT_STR

\* A check that lets every declared root pass.
RootVerified_NoAssert(object_name, expected_root, validated, roots_dict) == TRUE

\* The check of one configured name against the operator's declared root.
RootVerified(object_name, expected_root, validated, roots_dict) ==
    \/ IsObsoleteOrderRoot(object_name, expected_root)
    \/ object_name \notin validated
    \/ Hex(roots_dict[object_name]) = expected_root

\* The roots of the new batch info: the declared roots, hex-decoded, overwritten
\* by the roots the committee computed.
NewMerkleRoots(state_update, roots_dict) ==
    roots_dict @@ [n \in DOMAIN state_update.roots |-> FromHex(state_update.roots[n])]

\* A sequence number copied from the previous batch info.
NewSequenceNumber_NoIncrement(prev_batch_info) == prev_batch_info.sequence_number

NewSequenceNumber(prev_batch_info) == prev_batch_info.sequence_number + 1

validate_data_availability(storage, config, batch_id, state_update, write_ok) ==
    LET got == get_committee_batch_info_or_fail(storage, state_update.prev_batch_id)
    IN  IF ~got.ok
        THEN VdaFail(got.storage, "no batch info", {}, None)
        ELSE
        LET prev_batch_info == got.batch_info[1]
            prev_roots == PrevMerkleRoots(config, prev_batch_info)
            validated == validated_object_names(
                             config, config.validate_orders, config.validate_rollup)
        IN  IF ~validated.ok
            THEN VdaFail(got.storage, "validated names", {}, None)
            ELSE IF \E n \in validated.names :
                        n \notin DOMAIN prev_roots \/ n \notin DOMAIN state_update.objects
            THEN VdaFail(got.storage, "key error", {}, None)
            ELSE
            LET roots_dict == [n \in validated.names |->
                                  compute_merkle_root(prev_roots, n, state_update)]
                bad == {i \in DOMAIN config.names :
                           \/ config.names[i] \notin DOMAIN state_update.roots
                           \/ ~RootVerified(config.names[i],
                                            state_update.roots[config.names[i]],
                                            validated.names, roots_dict)}
            IN  IF bad # {}
                THEN LET first == CHOOSE i \in bad : \A j \in bad : i <= j
                     IN  VdaFail(got.storage,
                                 IF config.names[first] \in DOMAIN state_update.roots
                                 THEN config.names[first] \o " root mismatch"
                                 ELSE "key error",
                                 validated.names, None)
                ELSE
                LET batch_info == CommitteeBatchInfo(
                                      NewMerkleRoots(state_update, roots_dict),
                                      NewSequenceNumber(prev_batch_info))
                    written == set_batch_info(got.storage, batch_id, Serialize(batch_info))
                    hashed == compute_hash_availability_claim(config, batch_info)
                IN  IF ~write_ok
                    THEN VdaFail(got.storage, "storage error", validated.names, None)
                    ELSE IF ~hashed.ok
                    THEN VdaFail(written, "claim assertion", validated.names,
                                 Some(batch_info))
                    ELSE [ok |-> TRUE, error |-> "", storage |-> written,
                          computed |-> validated.names,
                          batch_info |-> Some(batch_info),
                          signature |-> Some(sign_hash(hashed.claim[1])),
                          availability_claim |-> hashed.claim]

(***************************************************************************)
(* The state updates the availability gateway may return.  For each object *)
(* the operator declares the root of its own modifications and delivers    *)
(* them, or delivers them with one modification dropped.  The declared     *)
(* order root may also be the obsolete-tree marker, in either case of      *)
(* letters, or be spelled in upper case.                                   *)
(***************************************************************************)
UpdateNames == <<"vault", "order", "rollup_vault">>

OperatorRoot(roots, object_name) ==
    IF object_name \in DOMAIN roots /\ roots[object_name] # OBSOLETE_ORDER_TREE_ROOT
    THEN roots[object_name]
    ELSE _compute_empty_root(object_name)

ObjectUpdates(object_name, base_root, indices) ==
    LET tree == [root |-> base_root, height |-> tree_height(object_name)]
        leaf == ModifiedLeaf(object_name)
        full == {i :> l : i \in indices, l \in {leaf, state_class_empty(object_name)}}
        plain == {[mods |-> <<>>, root |-> Hex(base_root)]}
                 \cup UNION {{[mods |-> d, root |-> Hex(update(tree, m).root)] :
                                 d \in {m, <<>>}} : m \in full}
        marked == {[mods |-> d, root |-> OBSOLETE_ORDER_TREE_ROOT_STR] :
                      d \in {0 :> leaf, <<>>}}
                  \cup {[mods |-> <<>>, root |-> Hex(OBSOLETE_ORDER_TREE_ROOT)],
                        [mods |-> <<>>, root |-> ToUpper(Hex(base_root))]}
    IN  IF object_name = "order" THEN plain \cup marked ELSE plain

StateUpdate(prev_batch_id, vault, order, rollup_vault) ==
    [prev_batch_id |-> prev_batch_id,
     objects |-> [n \in Range(UpdateNames) |->
                     IF n = "vault" THEN vault.mods
                     ELSE IF n = "order" THEN order.mods ELSE rollup_vault.mods],
     roots |-> [n \in Range(UpdateNames) |->
                   IF n = "vault" THEN vault.root
                   ELSE IF n = "order" THEN order.root ELSE rollup_vault.root]]

\* The roots the operator builds on: those stored for prev_batch_id under either
\* key, and the empty trees where nothing is stored.
OperatorRoots(storage, prev_batch_id) ==
    LET stored == IF storage.new[prev_batch_id] # None
                  THEN storage.new[prev_batch_id] ELSE storage.old[prev_batch_id]
        roots == IF stored = None THEN <<>> ELSE Deserialize(stored[1]).merkle_roots
    IN  [n \in Range(UpdateNames) |-> OperatorRoot(roots, n)]

\* The operator writes the first and the last leaf of a tree.
ModifiedIndices(object_name) == {0, 2 ^ tree_height(object_name) - 1}

StateUpdates(storage, batch_id) ==
    UNION {LET base == OperatorRoots(storage, prev)
           IN  {StateUpdate(prev, v, o, r) :
                   v \in ObjectUpdates("vault", base["vault"], ModifiedIndices("vault")),
                   o \in ObjectUpdates("order", base["order"], ModifiedIndices("order")),
                   r \in ObjectUpdates("rollup_vault", base["rollup_vault"],
                                       ModifiedIndices("rollup_vault"))} :
           prev \in -1 .. batch_id}

VARIABLES
    config,                \* the committee's configuration
    storage,               \* the key-value storage
    pc,                    \* where the process stands
    vda,                   \* the last validate_data_availability call and its result
    next_batch_id,         \* run's local next_batch_id, None before it is loaded
    stopped,               \* Committee.stopped
    availability_update,   \* run's local availability_update
    signed,                \* the signature and the claim run holds for sending
    restarts,              \* how many times the process was started again
    accepted,              \* history: batch ids whose signature the gateway accepted
    iteration,             \* history: the current loop iteration
    writes                 \* history: set_value calls made on each batch-info key

run_vars == <<next_batch_id, stopped, availability_update, signed, restarts,
              accepted, iteration, writes>>

vars == <<config, storage, pc, vda, next_batch_id, stopped, availability_update,
          signed, restarts, accepted, iteration, writes>>

(***************************************************************************)
(* validate_data_availability on its own: a started committee validates    *)
(* one state update, under every configuration.                            *)
(***************************************************************************)
CommitteeObjects == {<<"vault", "order">>, <<"vault", "order", "rollup_vault">>}

Configs ==
    {Config(names, vo, vr) :
        names \in CommitteeObjects, vo \in BOOLEAN, vr \in {"True", "False", "None"}}

\* A start that begins at batch 0 whatever the storage holds.
NextBatchId_Zero(store) == 0

\* A start that begins after the stored batch id.
NextBatchId_AfterStored(store) == IF store.next = None THEN 0 ELSE store.next[1] + 1

NextBatchId(store) == IF store.next = None THEN 0 ELSE store.next[1]

InitVda ==
    /\ config \in Configs
    /\ storage \in {EmptyStorage, UpgradedStorage}
    /\ pc = "vda_start"
    /\ vda = None
    /\ next_batch_id = None
    /\ stopped = FALSE
    /\ availability_update = None
    /\ signed = None
    /\ restarts = 0
    /\ accepted = {}
    /\ iteration = None
    /\ writes = [b \in BatchIds |-> "none"]

VdaStartup ==
    /\ pc = "vda_start"
    /\ storage' = compute_initial_batch_info(storage, config)
    /\ pc' = "vda_ready"
    /\ UNCHANGED <<config, vda, run_vars>>

VdaValidate ==
    /\ pc = "vda_ready"
    /\ \E state_update \in StateUpdates(storage, NextBatchId(storage)),
          write_ok \in BOOLEAN :
          LET result == validate_data_availability(
                            storage, config, NextBatchId(storage), state_update, write_ok)
          IN  /\ vda' = Some([batch_id |-> NextBatchId(storage),
                              state_update |-> state_update,
                              write_ok |-> write_ok,
                              before |-> storage,
                              result |-> result])
              /\ storage' = result.storage
    /\ pc' = "vda_done"
    /\ UNCHANGED <<config, run_vars>>

NextVda == VdaStartup \/ VdaValidate

SpecVda == InitVda /\ [][NextVda]_vars

(***************************************************************************)
(* What the properties of validate_data_availability speak of: the call    *)
(* recorded in vda, the configured names the configuration says are        *)
(* validated, the previous batch info as stored before the call, and the   *)
(* root each object's delivered modifications lead to.                     *)
(***************************************************************************)
Call == vda[1]

Declared(n) == Call.state_update.roots[n]

Configured == committee_objects_info(config)

ValidatedNames ==
    (Configured \ (IF config.validate_orders THEN {} ELSE {"order"}))
        \ (IF config.validate_rollup = "False" THEN {"rollup_vault"} ELSE {})

ConfigConsistent ==
    /\ config.validate_rollup = "None" => "rollup_vault" \notin Configured
    /\ config.validate_rollup = "False" => "rollup_vault" \in Configured

StoredBatchInfo(store, b) ==
    IF store.new[b] # None THEN store.new[b] ELSE store.old[b]

PrevStored == StoredBatchInfo(Call.before, Call.state_update.prev_batch_id)

PrevInfo == Deserialize(PrevStored[1])

PrevHas(n) == n \in DOMAIN PrevInfo.merkle_roots

PrevRoot(n) ==
    IF PrevHas(n) THEN PrevInfo.merkle_roots[n] ELSE _compute_empty_root(n)

RecomputedRoot(n) ==
    update([root |-> PrevRoot(n), height |-> tree_height(n)],
           Call.state_update.objects[n]).root

DeclaredObsolete(n) == n = "order" /\ Declared(n) = OBSOLETE_ORDER_TREE_ROOT_STR

Mismatch(n) ==
    /\ n \in ValidatedNames
    /\ ~DeclaredObsolete(n)
    /\ RecomputedRoot(n) # FromHex(Declared(n))

VdaCalled == vda # None /\ PrevStored # None /\ ConfigConsistent

PersistedInfo == Deserialize(Call.result.storage.new[Call.batch_id][1])

\* C5: validate_data_availability returns a signature only if every validated
\* object whose declared root is not the obsolete marker has a declared root equal
\* to the root recomputed from the previous root and the delivered modifications;
\* when one differs it raises "<name> root mismatch", persists no batch info (the
\* storage is as the read of the previous batch info left it) and returns no
\* signature.
C5_SignatureOnlyIfRootsMatch ==
    VdaCalled =>
        /\ Call.result.signature # None => \A n \in Configured : ~Mismatch(n)
        /\ (\E n \in Configured : Mismatch(n)) =>
              /\ ~Call.result.ok
              /\ Call.result.error \in {n \o " root mismatch" : n \in Configured}
              /\ Call.result.signature = None
              /\ Call.result.batch_info = None
              /\ Call.result.storage =
                     get_committee_batch_info(
                         Call.before, Call.state_update.prev_batch_id).storage

\* C5 happens: the vault is validated, one vault modification was dropped from the
\* update, and the call raised "vault root mismatch".
C5_Witness ==
    /\ VdaCalled
    /\ Mismatch("vault")
    /\ Call.state_update.objects["vault"] = <<>>
    /\ Call.result.error = "vault root mismatch"

\* C6: every batch info validate_data_availability persists for batch b has the
\* sequence number of the batch info stored at state_update.prev_batch_id plus one.
C6_SequenceNumberIsPrevPlusOne ==
    (VdaCalled /\ Call.result.batch_info # None) =>
        /\ PersistedInfo = Call.result.batch_info[1]
        /\ PersistedInfo.sequence_number = PrevInfo.sequence_number + 1

\* C6 happens: the first batch, built on the initial batch -1, gets sequence
\* number 0.
C6_Witness ==
    /\ VdaCalled
    /\ Call.result.ok
    /\ Call.batch_id = 0
    /\ Call.state_update.prev_batch_id = -1
    /\ PersistedInfo.sequence_number = 0

\* Every validated object other than n has the declared root the check accepts.
OthersVerified(n) ==
    \A m \in ValidatedNames \ {n} :
        DeclaredObsolete(m) \/ Hex(RecomputedRoot(m)) = Declared(m)

\* C7 as stated: with the obsolete marker as declared order root the committee
\* signs, computes no order tree update, and persists and hashes the marker itself,
\* whatever validate_orders is.
C7_MarkerStoredVerbatim ==
    (VdaCalled /\ DeclaredObsolete("order")) =>
        /\ (Call.write_ok /\ OthersVerified("order")) => Call.result.ok
        /\ Call.result.ok =>
              /\ "order" \notin Call.result.computed
              /\ PersistedInfo.merkle_roots["order"] = OBSOLETE_ORDER_TREE_ROOT
              /\ Call.result.availability_claim[1].trades_root = OBSOLETE_ORDER_TREE_ROOT

\* C7, amended: with the obsolete marker as declared order root the order root is
\* never compared, so the committee signs when the other validated roots match.
\* With validate_orders false no order tree update is computed and the marker
\* itself is persisted and hashed; with validate_orders true the order tree is
\* still recomputed, and the recomputed root is persisted and hashed.
C7_MarkerSkipsComparison ==
    (VdaCalled /\ DeclaredObsolete("order")) =>
        /\ Call.result.error # "order root mismatch"
        /\ (Call.write_ok /\ OthersVerified("order")) => Call.result.ok
        /\ (Call.result.ok /\ ~config.validate_orders) =>
              /\ "order" \notin Call.result.computed
              /\ PersistedInfo.merkle_roots["order"] = OBSOLETE_ORDER_TREE_ROOT
              /\ Call.result.availability_claim[1].trades_root = OBSOLETE_ORDER_TREE_ROOT
        /\ (Call.result.ok /\ config.validate_orders) =>
              /\ "order" \in Call.result.computed
              /\ PersistedInfo.merkle_roots["order"] = RecomputedRoot("order")
              /\ Call.result.availability_claim[1].trades_root = RecomputedRoot("order")

\* C7 happens: orders are validated, the declared order root is the marker, the
\* update modifies an order, and the committee signed a recomputed order root.
C7_Witness ==
    /\ VdaCalled
    /\ DeclaredObsolete("order")
    /\ config.validate_orders
    /\ Call.state_update.objects["order"] # <<>>
    /\ Call.result.ok
    /\ PersistedInfo.merkle_roots["order"] # OBSOLETE_ORDER_TREE_ROOT

\* The call repeated with object n's modifications replaced by mods.
WithObjects(n, mods) ==
    validate_data_availability(
        Call.before, config, Call.batch_id,
        [Call.state_update EXCEPT !.objects[n] = mods], Call.write_ok)

\* C8: for a configured object that is not validated, no tree update is computed,
\* its modifications never decide whether the call fails, and the root persisted
\* (and, for order, hashed into the claim) is the declared root, hex-decoded.
C8_UnvalidatedRootTakenVerbatim ==
    VdaCalled =>
        \A n \in Configured \ ValidatedNames :
            /\ n \notin Call.result.computed
            /\ Call.result.error # n \o " root mismatch"
            /\ \A mods \in {<<>>, 0 :> ModifiedLeaf(n)} :
                   WithObjects(n, mods).ok = Call.result.ok
            /\ Call.result.ok =>
                  /\ PersistedInfo.merkle_roots[n] = FromHex(Declared(n))
                  /\ n = "order" =>
                         Call.result.availability_claim[1].trades_root
                             = FromHex(Declared(n))

\* C8 happens: orders are not validated, the delivered order modifications do not
\* lead to the declared order root, and the committee signed.
C8_Witness ==
    /\ VdaCalled
    /\ "order" \notin ValidatedNames
    /\ RecomputedRoot("order") # FromHex(Declared("order"))
    /\ ~DeclaredObsolete("order")
    /\ Call.result.ok
    /\ PersistedInfo.merkle_roots["order"] = FromHex(Declared("order"))

\* The batch info with its rollup_vault root replaced, and with none.
WithRollupRoot(batch_info, root) ==
    [batch_info EXCEPT !.merkle_roots = ("rollup_vault" :> root) @@ @]

WithoutRollupRoot(batch_info) ==
    [batch_info EXCEPT
        !.merkle_roots = [n \in DOMAIN @ \ {"rollup_vault"} |-> @[n]]]

\* C9: the claim hash of a persisted batch info is the hash of its vault root, its
\* order root, their heights and its sequence number, and stays the same when the
\* rollup_vault root is replaced or removed; the signature signs that claim.
C9_ClaimIgnoresRollupRoot ==
    (VdaCalled /\ Call.result.batch_info # None) =>
        LET batch_info == Call.result.batch_info[1]
            hashed == compute_hash_availability_claim(config, batch_info)
        IN  /\ \A root \in {_compute_empty_root("rollup_vault"),
                            ModifiedRoot("rollup_vault"), OBSOLETE_ORDER_TREE_ROOT} :
                   compute_hash_availability_claim(
                       config, WithRollupRoot(batch_info, root)) = hashed
            /\ compute_hash_availability_claim(config, WithoutRollupRoot(batch_info))
                   = hashed
            /\ Call.result.ok =>
                  /\ Call.result.availability_claim = hashed.claim
                  /\ Call.result.signature = Some(sign_hash(hashed.claim[1]))
                  /\ hashed.claim[1] =
                         hash_availability_claim(
                             batch_info.merkle_roots["vault"], tree_height("vault"),
                             batch_info.merkle_roots["order"], tree_height("order"),
                             batch_info.sequence_number)

\* C9 happens: rollup_vault is configured and validated, and the committee signed a
\* batch whose rollup_vault root differs from its vault root.
C9_Witness ==
    /\ VdaCalled
    /\ Call.result.ok
    /\ "rollup_vault" \in ValidatedNames
    /\ PersistedInfo.merkle_roots["rollup_vault"] # PersistedInfo.merkle_roots["vault"]

\* C10 as stated: with rollup_vault configured, a successful call for an update
\* without rollup_vault modifications persists the previous rollup_vault root, or
\* the empty-tree root when the previous batch info has none.
C10_RollupRootCarriedOver ==
    (/\ VdaCalled
     /\ "rollup_vault" \in Configured
     /\ Call.result.ok
     /\ Call.state_update.objects["rollup_vault"] = <<>>) =>
        PersistedInfo.merkle_roots["rollup_vault"] = PrevRoot("rollup_vault")

\* C10, amended: the same when rollup_vault is also validated (validate_rollup
\* true).
C10_ValidatedRollupRootCarriedOver ==
    (/\ VdaCalled
     /\ "rollup_vault" \in Configured
     /\ config.validate_rollup = "True"
     /\ Call.result.ok
     /\ Call.state_update.objects["rollup_vault"] = <<>>) =>
        PersistedInfo.merkle_roots["rollup_vault"] = PrevRoot("rollup_vault")

\* C10 happens: the previous batch info has no rollup_vault root and the new one
\* holds the root of the empty tree.
C10_Witness ==
    /\ VdaCalled
    /\ config.validate_rollup = "True"
    /\ Call.result.ok
    /\ Call.state_update.objects["rollup_vault"] = <<>>
    /\ ~PrevHas("rollup_vault")
    /\ PersistedInfo.merkle_roots["rollup_vault"]
           = empty_tree_roots(tree_height("rollup_vault"), VaultEmpty)[
                 tree_height("rollup_vault") + 1]

(***************************************************************************)
(* Committee.run: the process starts, loads its counter, and loops over    *)
(* get_batch_data, validate_data_availability, send_signature and the      *)
(* persisting of the counter, sleeping after a wait and after an exception.*)
(* The process may be stopped, and killed and started again on the same    *)
(* storage.                                                                *)
(***************************************************************************)
\* The committees run: one without a rollup_vault tree on an empty storage, and
\* one upgraded to validate the rollup_vault tree on the storage of its past.
Committees ==
    {[config |-> Config(<<"vault", "order">>, TRUE, "None"),
      storage |-> EmptyStorage],
     [config |-> Config(<<"vault", "order", "rollup_vault">>, FALSE, "True"),
      storage |-> UpgradedStorage]}

\* The first batch id a committee on this storage works on.
FirstBatchId(store) == IF store.old[-1] = None THEN 0 ELSE FirstUpgradedBatch

\* The gateway's answers for one batch: the operator builds on the batch before
\* it or, that one aborted, on the initial batch, or names the batch itself while
\* the committee has stored nothing new for it; it writes vault 0, and delivers
\* the write or drops it.
GatewayUpdates(store, batch_id) ==
    UNION {LET base == OperatorRoots(store, prev)
               tree == [root |-> base["vault"], height |-> tree_height("vault")]
               honest == Hex(update(tree, 0 :> VaultLeaf).root)
               order == [mods |-> <<>>, root |-> Hex(base["order"])]
               rollup_vault == [mods |-> <<>>, root |-> Hex(base["rollup_vault"])]
           IN  {StateUpdate(prev, vault, order, rollup_vault) :
                   vault \in {[mods |-> 0 :> VaultLeaf, root |-> honest],
                              [mods |-> <<>>, root |-> honest]}} :
           prev \in {-1, batch_id - 1}
                        \cup (IF store.new[batch_id] = None THEN {batch_id} ELSE {})}

\* One more set_value on a key: the first, or a later one that stores what the
\* key held or something else.
Written(write, old_value, new_value) ==
    IF write = "none" THEN "once"
    ELSE IF write = "changed" \/ old_value # new_value THEN "changed"
    ELSE "same"

\* send_signature accepting whatever the gateway answers.
SignatureAccepted_Any(answer) == TRUE

SignatureAccepted(answer) == answer = "signature accepted"

GatewayAnswers == {"signature accepted", "signature rejected"}

Raise(stage) == [iteration[1] EXCEPT !.raised = stage]

Init ==
    /\ \E committee \in Committees :
           /\ config = committee.config
           /\ storage = committee.storage
    /\ pc = "start"
    /\ vda = None
    /\ next_batch_id = None
    /\ stopped = FALSE
    /\ availability_update = None
    /\ signed = None
    /\ restarts = 0
    /\ accepted = {b \in BatchIds : 0 <= b /\ b < FirstBatchId(storage)}
    /\ iteration = None
    /\ writes = [b \in BatchIds |-> "none"]

\* run, line 321.
Start ==
    /\ pc = "start"
    /\ storage' = compute_initial_batch_info(storage, config)
    /\ writes' = [writes EXCEPT ![-1] = Written(@, storage.new[-1], storage'.new[-1])]
    /\ pc' = "load"
    /\ UNCHANGED <<config, vda, next_batch_id, stopped, availability_update, signed,
                   restarts, accepted, iteration>>

\* run, lines 323-326.
LoadNextBatchId ==
    /\ pc = "load"
    /\ next_batch_id' = Some(NextBatchId(storage))
    /\ storage' = IF storage.next = None
                  THEN [storage EXCEPT !.next = Some(0)] ELSE storage
    /\ pc' = "loop"
    /\ UNCHANGED <<config, vda, stopped, availability_update, signed, restarts,
                   accepted, iteration, writes>>

\* A loop that never reads the stopped flag.
KeepRunning_Always(is_stopped) == TRUE

\* run, line 328: the condition of the while loop.
KeepRunning(is_stopped) == ~is_stopped

\* The loop condition fails.
Exit ==
    /\ pc = "loop"
    /\ ~KeepRunning(stopped)
    /\ pc' = "done"
    /\ UNCHANGED <<config, storage, vda, run_vars>>

BeginIteration ==
    Some([batch_id |-> next_batch_id[1], before |-> storage.new[next_batch_id[1]],
          raised |-> ""])

\* A loop that validates whatever get_batch_data returned.
AfterGetBatchData_NoNullCheck(batch_data) == "validate"

\* run, lines 334-337: an update that is None sends the iteration to sleep.
AfterGetBatchData(batch_data) == IF batch_data = None THEN "sleep" ELSE "validate"

\* get_batch_data raises.
GetBatchDataRaises ==
    /\ pc = "loop"
    /\ KeepRunning(stopped)
    /\ iteration' = Some([BeginIteration[1] EXCEPT !.raised = "get_batch_data"])
    /\ pc' = "sleep"
    /\ UNCHANGED <<config, storage, vda, next_batch_id, stopped, availability_update,
                   signed, restarts, accepted, writes>>

\* get_batch_data returns no update: the batch is not ready.
GetBatchDataWaits ==
    /\ pc = "loop"
    /\ KeepRunning(stopped)
    /\ iteration' = BeginIteration
    /\ pc' = AfterGetBatchData(None)
    /\ UNCHANGED <<config, storage, vda, next_batch_id, stopped, availability_update,
                   signed, restarts, accepted, writes>>

\* get_batch_data returns an update, which is_valid lets pass.
GetBatchData ==
    /\ pc = "loop"
    /\ KeepRunning(stopped)
    /\ next_batch_id[1] - FirstBatchId(storage) < MaxBatch
    /\ \E state_update \in GatewayUpdates(storage, next_batch_id[1]) :
           availability_update' = Some(state_update)
    /\ iteration' = BeginIteration
    /\ pc' = AfterGetBatchData(availability_update')
    /\ UNCHANGED <<config, storage, vda, next_batch_id, stopped, signed, restarts,
                   accepted, writes>>

\* run, lines 344-349.  result is the value the call returned, computed once.
Validate ==
    /\ pc = "validate"
    /\ \E write_ok \in BOOLEAN :
          LET batch_id == next_batch_id[1]
              returned == validate_data_availability(
                              storage, config, batch_id, availability_update[1], write_ok)
          IN  \E result \in {returned} :
              /\ vda' = Some([batch_id |-> batch_id,
                              state_update |-> availability_update[1],
                              write_ok |-> write_ok,
                              before |-> storage,
                              result |-> result])
              /\ storage' = result.storage
              /\ writes' = IF result.batch_info = None THEN writes
                           ELSE [writes EXCEPT ![batch_id] =
                                    Written(@,
                                            get_committee_batch_info(
                                                storage,
                                                availability_update[1].prev_batch_id
                                            ).storage.new[batch_id],
                                            result.storage.new[batch_id])]
              /\ IF result.ok
                 THEN /\ signed' = Some([signature |-> result.signature[1],
                                         claim_hash |-> result.availability_claim[1]])
                      /\ pc' = "send"
                      /\ UNCHANGED iteration
                 ELSE /\ iteration' = Some(Raise("validate_data_availability"))
                      /\ pc' = "sleep"
                      /\ UNCHANGED signed
    /\ UNCHANGED <<config, next_batch_id, stopped, availability_update, restarts,
                   accepted>>

\* send_signature gets an answer from the gateway; run, lines 350-353.
SendSignature ==
    /\ pc = "send"
    /\ \E answer \in GatewayAnswers :
          /\ accepted' = IF answer = "signature accepted"
                         THEN accepted \cup {next_batch_id[1]} ELSE accepted
          /\ IF SignatureAccepted(answer)
             THEN /\ next_batch_id' = Some(next_batch_id[1] + 1)
                  /\ pc' = "persist"
                  /\ UNCHANGED iteration
             ELSE /\ iteration' = Some(Raise("send_signature"))
                  /\ pc' = "sleep"
                  /\ UNCHANGED next_batch_id
    /\ UNCHANGED <<config, storage, vda, stopped, availability_update, signed,
                   restarts, writes>>

\* The request of send_signature fails.
SendSignatureRaises ==
    /\ pc = "send"
    /\ iteration' = Some(Raise("send_signature"))
    /\ pc' = "sleep"
    /\ UNCHANGED <<config, storage, vda, next_batch_id, stopped, availability_update,
                   signed, restarts, accepted, writes>>

\* The iteration is over: its locals are dead at the head of the loop, where
\* the next iteration assigns them before it reads them.
EndIteration ==
    /\ pc' = "loop"
    /\ availability_update' = None
    /\ signed' = None
    /\ vda' = None
    /\ iteration' = None

\* run, line 354.
PersistNextBatchId ==
    /\ pc = "persist"
    /\ storage' = [storage EXCEPT !.next = next_batch_id]
    /\ EndIteration
    /\ UNCHANGED <<config, next_batch_id, stopped, restarts, accepted, writes>>

\* set_int raises.
PersistNextBatchIdRaises ==
    /\ pc = "persist"
    /\ iteration' = Some(Raise("set_int"))
    /\ pc' = "sleep"
    /\ UNCHANGED <<config, storage, vda, next_batch_id, stopped, availability_update,
                   signed, restarts, accepted, writes>>

\* asyncio.sleep returns: run, lines 335-336 and 358.
Sleep ==
    /\ pc = "sleep"
    /\ EndIteration
    /\ UNCHANGED <<config, storage, next_batch_id, stopped, restarts, accepted, writes>>

\* Committee.stop, which another coroutine calls while run is at any of its
\* awaits, or before run is called.
stop ==
    /\ ~stopped
    /\ stopped' = TRUE
    /\ UNCHANGED <<config, storage, pc, vda, next_batch_id, availability_update,
                   signed, restarts, accepted, iteration, writes>>

\* The process ends, or is killed, and main starts a new one on the same storage.
Restart ==
    /\ pc # "start"
    /\ restarts < MaxRestarts
    /\ restarts' = restarts + 1
    /\ pc' = "start"
    /\ vda' = None
    /\ next_batch_id' = None
    /\ stopped' = FALSE
    /\ availability_update' = None
    /\ signed' = None
    /\ iteration' = None
    /\ UNCHANGED <<config, storage, accepted, writes>>

Next ==
    \/ Start
    \/ LoadNextBatchId
    \/ Exit
    \/ GetBatchDataRaises
    \/ GetBatchDataWaits
    \/ GetBatchData
    \/ Validate
    \/ SendSignature
    \/ SendSignatureRaises
    \/ PersistNextBatchId
    \/ PersistNextBatchIdRaises
    \/ Sleep
    \/ stop
    \/ Restart

Spec == Init /\ [][Next]_vars

(***************************************************************************)
(* What the properties of the run loop speak of.                           *)
(***************************************************************************)
PersistedNextBatchId == IF storage.next = None THEN 0 ELSE storage.next[1]

Below(counter) == {b \in BatchIds : 0 <= b /\ b < counter}

Raised == iteration # None /\ iteration[1].raised # ""

IterationKey == storage.new[iteration[1].batch_id]

\* The key of the iteration's batch is as the iteration found it, or was absent
\* and now holds the copy of the legacy key made by reading the previous batch
\* info of an update that names the batch itself.
KeyAsBefore ==
    \/ IterationKey = iteration[1].before
    \/ /\ iteration[1].before = None
       /\ availability_update # None
       /\ availability_update[1].prev_batch_id = iteration[1].batch_id
       /\ IterationKey = storage.old[iteration[1].batch_id]

\* C1: the counter held in memory and the persisted committee_next_batch_id only
\* move up; the one in memory moves from b to b+1, in the step in which
\* send_signature for b returns with the gateway's answer 'signature accepted';
\* the persisted one moves only over batches whose signature was accepted; and in
\* every state every batch id below either counter has had its signature
\* accepted.
C1_CounterAdvancesAfterAcceptance ==
    /\ [](/\ Below(PersistedNextBatchId) \subseteq accepted
          /\ next_batch_id # None => Below(next_batch_id[1]) \subseteq accepted)
    /\ [][(next_batch_id # None /\ next_batch_id' # None
              /\ next_batch_id' # next_batch_id) =>
             /\ pc = "send"
             /\ next_batch_id'[1] = next_batch_id[1] + 1
             /\ next_batch_id[1] \in accepted']_vars
    /\ [][storage'.next # storage.next =>
             \/ storage.next = None /\ storage'.next = Some(0)
             \/ /\ storage.next # None
                /\ storage'.next # None
                /\ storage'.next[1] > storage.next[1]
                /\ Below(storage'.next[1]) \subseteq accepted]_vars

\* C1 happens: a committee started on an empty storage has had every batch the
\* gateway serves accepted and has persisted the counter past them.
C1_Witness ==
    /\ storage.old[-1] = None
    /\ storage.next = Some(MaxBatch)
    /\ next_batch_id = Some(MaxBatch)
    /\ accepted = Below(MaxBatch)

\* C2: when a step of an iteration for batch b has raised, the loop sleeps still
\* holding b as the batch id to request next.
C2_RaisedIterationKeepsBatchId ==
    (pc = "sleep" /\ Raised) => next_batch_id = Some(iteration[1].batch_id)

C4_KeysWrittenOnce == \A b \in BatchIds : writes[b] \in {"none", "once"}

\* C4, amended: a new key is written by compute_initial_batch_info (key -1, at
\* every start, always with the same value), by validate_data_availability for
\* the batch id the loop holds, which is never below the persisted counter (so a
\* retried iteration, or one after a restart, may replace what the key holds),
\* and by the copy of a legacy key, which only fills an absent key; what is
\* stored under a batch id below the persisted counter is never replaced.
C4_KeysRewrittenOnlyAtCounter ==
    /\ [](writes[-1] # "changed")
    /\ [][\A b \in BatchIds :
             /\ writes'[b] # writes[b] =>
                   \/ b = -1 /\ pc = "start"
                   \/ /\ pc = "validate"
                      /\ next_batch_id = Some(b)
                      /\ b >= PersistedNextBatchId
             /\ storage'.new[b] # storage.new[b] =>
                   \/ b = -1 /\ pc = "start" /\ storage.new[b] = None
                   \/ /\ pc = "validate"
                      /\ next_batch_id = Some(b)
                      /\ b >= PersistedNextBatchId
                   \/ /\ pc = "validate"
                      /\ storage.new[b] = None
                      /\ storage'.new[b] = storage.old[b]
             /\ (b \in Below(PersistedNextBatchId) /\ storage.new[b] # None) =>
                   storage'.new[b] = storage.new[b]]_vars

\* C4 happens: a retried iteration replaced the batch info of its batch, and a
\* restart wrote the initial batch info again.
C4_Witness ==
    /\ writes[-1] = "same"
    /\ \E b \in BatchIds : b >= 0 /\ writes[b] = "changed"

(***************************************************************************)
(* Reads of the batch info, the initial batch info, and the order of the   *)
(* run loop.                                                               *)
(***************************************************************************)
\* The storages that differ from store at most in the new key of batch b.
SameBut(store, other, b) ==
    /\ other.old = store.old
    /\ other.next = store.next
    /\ \A k \in BatchIds \ {b} : other.new[k] = store.new[k]

\* C11: in every storage the committee reaches, a read of a batch info held only
\* under the legacy key returns that value, stores the same bytes under the new
\* key and changes nothing else; a second read returns the same value from the
\* new key alone; a read of a batch whose new key holds a value returns it
\* without reading the legacy key and without writing.  The read made by
\* validate_data_availability leaves the storage so.
C11_LegacyKeyCopiedOnFirstRead ==
    /\ \A b \in BatchIds :
          LET first == get_committee_batch_info(storage, b)
              second == get_committee_batch_info(first.storage, b)
          IN  /\ (storage.new[b] = None /\ storage.old[b] # None) =>
                    /\ first.read_old
                    /\ first.batch_info = Some(Deserialize(storage.old[b][1]))
                    /\ first.storage.new[b] = storage.old[b]
                    /\ SameBut(storage, first.storage, b)
                    /\ ~second.read_old
                    /\ second.batch_info = first.batch_info
                    /\ second.storage = first.storage
              /\ storage.new[b] # None =>
                    /\ ~first.read_old
                    /\ first.batch_info = Some(Deserialize(storage.new[b][1]))
                    /\ first.storage = storage
    /\ (vda # None /\ Call.state_update.prev_batch_id # Call.batch_id
           /\ Call.before.new[Call.state_update.prev_batch_id] = None) =>
          /\ Call.result.storage.new[Call.state_update.prev_batch_id]
                 = Call.before.old[Call.state_update.prev_batch_id]
          /\ Call.result.storage.old = Call.before.old

\* C11 happens: validate_data_availability read a previous batch info held only
\* under the legacy key, in its oldest stored form, and the new key now holds the
\* same record although the legacy and the new key of batch -1 differ.
C11_Witness ==
    /\ vda # None
    /\ Call.state_update.prev_batch_id = 0
    /\ Call.before.new[0] = None
    /\ Call.before.old[0] # None
    /\ "vaults_root" \in DOMAIN Call.before.old[0][1]
    /\ storage.new[0] = storage.old[0]
    /\ storage.new[-1] # storage.old[-1]

\* The root of the empty tree of an object, by the list of empty-tree roots.
EmptyRoot(n) ==
    empty_tree_roots(tree_height(n), state_class_empty(n))[tree_height(n) + 1]

\* The initial batch info as stored in store.
IsInitialBatchInfo(store) ==
    /\ store.new[-1] # None
    /\ LET initial == Deserialize(store.new[-1][1])
       IN  /\ initial.sequence_number = -1
           /\ DOMAIN initial.merkle_roots = Configured
           /\ \A n \in Configured : initial.merkle_roots[n] = EmptyRoot(n)
           /\ "rollup_vault" \in Configured =>
                  initial.merkle_roots["rollup_vault"] = initial.merkle_roots["vault"]

\* C12: once run has passed compute_initial_batch_info, and so whenever it
\* requests a batch or reads a previous batch info, the new key of batch -1 holds
\* sequence_number -1 and, for exactly the configured names, the roots of their
\* empty trees; the roots of vault and rollup_vault, of one leaf type and height,
\* are equal.  No batch is requested and no previous batch info read before.
C12_InitialBatchInfoBeforeAnyBatch ==
    /\ pc # "start" => IsInitialBatchInfo(storage)
    /\ vda # None => IsInitialBatchInfo(Call.before)
    /\ pc = "start" => (iteration = None /\ vda = None /\ availability_update = None)

\* C12 happens: a committee with a rollup_vault tree, started on a storage whose
\* legacy key of batch -1 holds an initial batch info without one, validates a
\* batch that builds on batch -1.
C12_Witness ==
    /\ pc = "send"
    /\ "rollup_vault" \in Configured
    /\ storage.old[-1] # None
    /\ storage.new[-1] # storage.old[-1]
    /\ Call.state_update.prev_batch_id = -1
    /\ IsInitialBatchInfo(Call.before)

\* C13: in every storage the committee reaches, get_committee_batch_info returns
\* None exactly when neither key of the batch holds a value, and then writes
\* nothing; get_committee_batch_info_or_fail raises in exactly that case and
\* otherwise returns the same batch info and leaves the same storage.  A call of
\* validate_data_availability whose update names a previous batch without a
\* stored batch info fails on that read: no tree update is computed, nothing is
\* written and nothing is signed; no other call fails so.
C13_MissingBatchInfoFailsTheRead ==
    /\ \A b \in BatchIds :
          LET got == get_committee_batch_info(storage, b)
              or_fail == get_committee_batch_info_or_fail(storage, b)
          IN  /\ got.batch_info = None <=> (storage.new[b] = None /\ storage.old[b] = None)
              /\ got.batch_info = None => got.storage = storage
              /\ or_fail.ok <=> got.batch_info # None
              /\ or_fail.batch_info = got.batch_info
              /\ or_fail.storage = got.storage
    /\ vda # None =>
          IF PrevStored = None
          THEN /\ ~Call.result.ok
               /\ Call.result.error = "no batch info"
               /\ Call.result.computed = {}
               /\ Call.result.storage = Call.before
               /\ Call.result.batch_info = None
               /\ Call.result.signature = None
          ELSE Call.result.error # "no batch info"

\* C13 happens: validate_data_availability was called with an update that names a
\* previous batch stored under neither key, and failed on the read.
C13_Witness ==
    /\ vda # None
    /\ PrevStored = None
    /\ Call.state_update.prev_batch_id = Call.batch_id
    /\ Call.result.error = "no batch info"
    /\ storage = Call.before

\* C14: within one call of run, the loop starts at the persisted
\* committee_next_batch_id, or at 0, which it persists, when the key is absent;
\* the batch id it holds, which is the one each iteration requests, never
\* decreases and grows by 1 at a time; and every batch id below the one an
\* iteration requests has had its signature accepted.
C14_BatchesInAscendingOrder ==
    /\ [](iteration # None =>
             /\ next_batch_id # None
             /\ next_batch_id[1] \in {iteration[1].batch_id, iteration[1].batch_id + 1}
             /\ pc \in {"validate", "send"} => next_batch_id[1] = iteration[1].batch_id
             /\ Below(iteration[1].batch_id) \subseteq accepted)
    /\ [][(next_batch_id = None /\ next_batch_id' # None) =>
             /\ next_batch_id' = Some(IF storage.next = None THEN 0 ELSE storage.next[1])
             /\ storage'.next = next_batch_id'
             /\ iteration' = None]_vars
    /\ [][(next_batch_id # None /\ next_batch_id' # None) =>
             next_batch_id'[1] \in {next_batch_id[1], next_batch_id[1] + 1}]_vars
    /\ [][(iteration' # None /\ iteration' # iteration /\ iteration = None) =>
             iteration'[1].batch_id = next_batch_id[1]]_vars

\* C14 happens: a committee started on an empty storage, batch 0 accepted and the
\* counter persisted, validates batch 1.
C14_Witness ==
    /\ pc = "validate"
    /\ storage.old[-1] = None
    /\ storage.next = Some(1)
    /\ next_batch_id = Some(1)
    /\ iteration[1].batch_id = 1
    /\ 0 \in accepted

\* The iteration in progress got no update from get_batch_data.
Waiting ==
    /\ iteration # None
    /\ iteration[1].raised = ""
    /\ availability_update = None

\* C15: an iteration whose get_batch_data returns no update only sleeps and
\* goes back to the head of the loop with the same batch id: it writes no batch
\* info and no counter, validates nothing, signs nothing and sends nothing.
C15_NoUpdateOnlySleeps ==
    /\ [](Waiting =>
             /\ pc = "sleep"
             /\ vda = None
             /\ signed = None
             /\ next_batch_id = Some(iteration[1].batch_id)
             /\ storage.new[iteration[1].batch_id] = iteration[1].before)
    /\ [][(pc = "loop" /\ Waiting') =>
             /\ pc' = "sleep"
             /\ UNCHANGED <<storage, next_batch_id, accepted, writes, vda, signed>>]_vars
    /\ [][Waiting =>
             /\ UNCHANGED <<storage, accepted, writes>>
             /\ restarts' = restarts =>
                    /\ UNCHANGED next_batch_id
                    /\ \/ UNCHANGED <<pc, iteration>>
                       \/ pc' = "loop" /\ iteration' = None]_vars

\* C15 happens: batch 0 is accepted and persisted, and batch 1 is not ready.
C15_Witness ==
    /\ Waiting
    /\ pc = "sleep"
    /\ iteration[1].batch_id = 1
    /\ storage.next = Some(1)
    /\ storage.new[1] = None
    /\ 0 \in accepted

\* One call of run, whose steps the event loop keeps scheduling: an await of
\* the iteration in progress returns or raises, and the process is not killed.
RunStep ==
    \/ Start
    \/ LoadNextBatchId
    \/ Exit
    \/ GetBatchDataRaises
    \/ GetBatchDataWaits
    \/ GetBatchData
    \/ Validate
    \/ SendSignature
    \/ SendSignatureRaises
    \/ PersistNextBatchId
    \/ PersistNextBatchIdRaises
    \/ Sleep

NextRun == RunStep \/ stop

\* The committee that starts on an empty storage.
InitRun == Init /\ storage = EmptyStorage

FairSpec == InitRun /\ [][NextRun]_vars /\ WF_vars(RunStep)

\* C16: stop only sets the flag and leaves the iteration in progress alone; the
\* steps of that iteration still happen; once the flag is set no iteration
\* starts; run returns from the head of the loop only; and, its awaits
\* returning, run returns.
C16_StopEndsTheLoopAfterTheIteration ==
    /\ [][stopped' # stopped =>
             UNCHANGED <<config, storage, pc, vda, next_batch_id, availability_update,
                         signed, restarts, accepted, iteration, writes>>]_vars
    /\ [][stopped => ~(iteration = None /\ iteration' # None)]_vars
    /\ [][(stopped /\ pc = "loop") => pc' \in {"loop", "done"}]_vars
    /\ [][(pc' = "done" /\ pc # "done") => (pc = "loop" /\ stopped /\ iteration = None)]_vars
    /\ [](stopped /\ iteration # None => ENABLED RunStep)
    /\ stopped ~> (pc = "done")

\* C16 happens: stop was called during the iteration of batch 0, whose
\* signature the gateway then accepted and whose counter is still to be stored.
C16_Witness ==
    /\ stopped
    /\ pc = "persist"
    /\ iteration # None
    /\ next_batch_id = Some(1)
    /\ storage.next = Some(0)
    /\ 0 \in accepted

\* The loop works on batch b.
At(b) == next_batch_id = Some(b)

\* The update validated last declares, for a validated object, a root that is
\* not the recomputed one.
MismatchingUpdate ==
    /\ vda # None
    /\ PrevStored # None
    /\ \E n \in Configured : Mismatch(n)

\* The ways an iteration ends in the handler of run, lines 355-358.
NoUpdateReturned ==
    pc = "sleep" /\ iteration[1].raised \in {"", "get_batch_data"}

UpdateRefused ==
    /\ pc = "sleep"
    /\ iteration[1].raised = "validate_data_availability"
    /\ vda[1].result.error # "storage error"

SignatureRefused ==
    pc = "sleep" /\ iteration[1].raised = "send_signature"

WriteFailed ==
    /\ pc = "sleep"
    /\ iteration[1].raised = "validate_data_availability"
    /\ vda[1].result.error = "storage error"

\* An update with a mismatching root ends its iteration in the handler, which
\* sleeps: nothing is signed, the batch id stays, and run does not return; the
\* batch id moves only after a validation in which no root mismatched.
StallsOnMismatch ==
    /\ [](MismatchingUpdate =>
             /\ pc = "sleep"
             /\ ~vda[1].result.ok
             /\ vda[1].result.error \in {n \o " root mismatch" : n \in Configured}
             /\ iteration[1].raised = "validate_data_availability"
             /\ signed = None
             /\ At(vda[1].batch_id))
    /\ [][(next_batch_id # None /\ next_batch_id' # None
             /\ next_batch_id' # next_batch_id) =>
             /\ pc = "send"
             /\ vda # None /\ vda[1].result.ok /\ ~MismatchingUpdate
             /\ next_batch_id' = Some(next_batch_id[1] + 1)]_vars
    /\ [][(pc' = "done" /\ pc # "done") => stopped]_vars
    /\ \A b \in 0 .. MaxBatch :
          [](At(b) /\ [](pc = "send" => MismatchingUpdate) => []At(b))

SequenceNumberOf(store, b) == Deserialize(StoredBatchInfo(store, b)[1]).sequence_number

\* The sequence number in the claim the iteration signed.
SignedSequenceNumber == signed[1].claim_hash.seq_num

\* C18 as stated: the sequence number of the claim just signed is greater than
\* that of every batch whose signature was accepted before.
C18_SequenceNumberGrowsWithEverySignature ==
    pc = "send" =>
        \A b \in accepted :
            (b < Call.batch_id /\ StoredBatchInfo(storage, b) # None) =>
                SequenceNumberOf(storage, b) < SignedSequenceNumber

\* C18: the sequence number of the claim signed for batch b, which is the one
\* stored with the batch info of b, is one more than the sequence number stored
\* for the batch the state update names as prev_batch_id: it grows along the
\* prev_batch_id references, and a batch built on a batch before the last signed
\* one carries a sequence number that was signed already.
C18_SequenceNumberGrowsAlongPrevBatchIds ==
    pc = "send" =>
        /\ SignedSequenceNumber =
              SequenceNumberOf(Call.before, Call.state_update.prev_batch_id) + 1
        /\ SignedSequenceNumber = SequenceNumberOf(storage, Call.batch_id)
        /\ signed[1].signature = sign_hash(signed[1].claim_hash)
        /\ SignedSequenceNumber >
              SequenceNumberOf(Call.before, Call.state_update.prev_batch_id)

\* C18 happens: batch 0 was signed with sequence number 0 and accepted, and
\* batch 1, built on the initial batch -1, is signed with sequence number 0.
C18_Witness ==
    /\ pc = "send"
    /\ Call.batch_id = 1
    /\ Call.state_update.prev_batch_id = -1
    /\ 0 \in accepted
    /\ SequenceNumberOf(storage, 0) = 0
    /\ SignedSequenceNumber = 0

(***************************************************************************)
(* validate_data_availability of committees configured with one more       *)
(* object: a second tree of vaults under a name of its own.                *)
(***************************************************************************)
NamedObjects ==
    {<<"vault", "order">>, <<"vault", "order", "rollup_vault">>,
     <<"vault", "order", "extra_vault">>,
     <<"vault", "order", "rollup_vault", "extra_vault">>}

NamedConfigs ==
    {Config(names, vo, IF "rollup_vault" \in Range(names) THEN "True" ELSE "None") :
        names \in NamedObjects, vo \in BOOLEAN}

InitNames ==
    /\ config \in NamedConfigs
    /\ storage = EmptyStorage
    /\ pc = "vda_start"
    /\ vda = None
    /\ next_batch_id = None
    /\ stopped = FALSE
    /\ availability_update = None
    /\ signed = None
    /\ restarts = 0
    /\ accepted = {}
    /\ iteration = None
    /\ writes = [b \in BatchIds |-> "none"]

SpecNames == InitNames /\ [][NextVda]_vars

\* The initial batch info, which holds a root for every configured name.
InitialBatchInfo == Deserialize(storage.new[-1][1])

\* The claim over the vault root and the order root of a batch info.
VaultAndOrderClaim(batch_info) ==
    hash_availability_claim(batch_info.merkle_roots["vault"], tree_height("vault"),
                            batch_info.merkle_roots["order"], tree_height("order"),
                            batch_info.sequence_number)

\* The configured names but for rollup_vault are the vault name and order.
TwoHashedNames == Configured \ {"rollup_vault"} = {"vault", "order"}

GatherConfigs ==
    {Config(<<"vault", "order">>, TRUE, "None"),
     Config(<<"vault", "order", "rollup_vault">>, TRUE, "True")}

InitGather ==
    /\ config \in GatherConfigs
    /\ storage = EmptyStorage
    /\ pc = "vda_start"
    /\ vda = None
    /\ next_batch_id = None
    /\ stopped = FALSE
    /\ availability_update = None
    /\ signed = None
    /\ restarts = 0
    /\ accepted = {}
    /\ iteration = None
    /\ writes = [b \in BatchIds |-> "none"]

Pending(call) == call.names \ Range(call.started)

Running(call) == Range(call.started) \ Range(call.finished)

\* A gather that returns as soon as one task has finished.
GatherDone_FirstCompleted(call) == call.finished # <<>>

\* validate_data_availability, lines 248-253: gather returns when every task has.
GatherDone(call) == Pending(call) = {} /\ Running(call) = {}

VdaRaise(error) ==
    /\ vda' = Some([vda[1] EXCEPT !.error = error])
    /\ pc' = "vda_done"

\* validate_data_availability, lines 213-246.
BeginValidate ==
    /\ pc = "vda_ready"
    /\ \E state_update \in GatewayUpdates(storage, NextBatchId(storage)) :
          LET got == get_committee_batch_info_or_fail(storage, state_update.prev_batch_id)
              validated == validated_object_names(
                               config, config.validate_orders, config.validate_rollup)
              call == [batch_id |-> NextBatchId(storage),
                       state_update |-> state_update,
                       before |-> storage,
                       prev_batch_info |-> got.batch_info,
                       names |-> IF got.ok /\ validated.ok THEN validated.names ELSE {},
                       started |-> <<>>,
                       finished |-> <<>>,
                       roots_dict |-> <<>>,
                       batch_info |-> None,
                       error |-> IF ~got.ok THEN "no batch info"
                                 ELSE IF ~validated.ok THEN "validated names" ELSE ""]
          IN  /\ vda' = Some(call)
              /\ storage' = got.storage
              /\ pc' = IF call.error = "" THEN "vda_gather" ELSE "vda_done"
    /\ UNCHANGED <<config, run_vars>>

\* A task of gather runs up to its first await: compute_merkle_root, lines 230-234.
StartUpdate(object_name) ==
    /\ pc = "vda_gather"
    /\ object_name \in Pending(Call)
    /\ IF object_name \in DOMAIN Call.state_update.objects
          /\ object_name \in DOMAIN PrevMerkleRoots(config, Call.prev_batch_info[1])
       THEN /\ vda' = Some([Call EXCEPT !.started = Append(@, object_name)])
            /\ UNCHANGED pc
       ELSE VdaRaise("key error")
    /\ UNCHANGED <<config, storage, run_vars>>

\* tree.update returns and the task ends with its root.
FinishUpdate(object_name) ==
    /\ pc = "vda_gather"
    /\ object_name \in Running(Call)
    /\ vda' = Some([Call EXCEPT
                       !.finished = Append(@, object_name),
                       !.roots_dict = @ @@ (object_name :>
                           compute_merkle_root(
                               PrevMerkleRoots(config, Call.prev_batch_info[1]),
                               object_name, Call.state_update))])
    /\ UNCHANGED <<config, storage, pc, run_vars>>

\* gather has returned: validate_data_availability, lines 255-288.
VerifyRoots ==
    /\ pc = "vda_gather"
    /\ GatherDone(Call)
    /\ LET names == config.names
           roots == Call.state_update.roots
           missing == {i \in DOMAIN names :
                          \/ names[i] \notin DOMAIN roots
                          \/ /\ ~IsObsoleteOrderRoot(names[i], roots[names[i]])
                             /\ names[i] \in Call.names
                             /\ names[i] \notin DOMAIN Call.roots_dict}
           bad == {i \in DOMAIN names \ missing :
                      ~RootVerified(names[i], roots[names[i]], Call.names,
                                    Call.roots_dict)}
           first == CHOOSE i \in missing \cup bad : \A j \in missing \cup bad : i <= j
       IN  IF missing \cup bad # {}
           THEN VdaRaise(IF first \in missing THEN "key error"
                         ELSE names[first] \o " root mismatch")
           ELSE /\ vda' = Some([Call EXCEPT !.batch_info =
                                   Some(CommitteeBatchInfo(
                                       NewMerkleRoots(Call.state_update, Call.roots_dict),
                                       NewSequenceNumber(Call.prev_batch_info[1])))])
                /\ pc' = "vda_write"
    /\ UNCHANGED <<config, storage, run_vars>>

\* storage.set_value: validate_data_availability, lines 289-291.
WriteBatchInfo ==
    /\ pc = "vda_write"
    /\ \E write_ok \in BOOLEAN :
          IF write_ok
          THEN /\ storage' = set_batch_info(storage, Call.batch_id,
                                            Serialize(Call.batch_info[1]))
               /\ pc' = "vda_sign"
               /\ UNCHANGED vda
          ELSE /\ VdaRaise("storage error")
               /\ UNCHANGED storage
    /\ UNCHANGED <<config, run_vars>>

\* validate_data_availability, lines 295-297.
SignClaim ==
    /\ pc = "vda_sign"
    /\ LET hashed == compute_hash_availability_claim(config, Call.batch_info[1])
       IN  IF hashed.ok
           THEN /\ signed' = Some([signature |-> sign_hash(hashed.claim[1]),
                                   claim_hash |-> hashed.claim[1]])
                /\ pc' = "vda_send"
                /\ UNCHANGED vda
           ELSE /\ VdaRaise("claim assertion")
                /\ UNCHANGED signed
    /\ UNCHANGED <<config, storage, next_batch_id, stopped, availability_update,
                   restarts, accepted, iteration, writes>>

\* run, lines 350-352: the signature goes to the gateway, which answers.
SubmitSignature ==
    /\ pc = "vda_send"
    /\ \E answer \in GatewayAnswers :
          accepted' = IF SignatureAccepted(answer)
                      THEN accepted \cup {Call.batch_id} ELSE accepted
    /\ pc' = "vda_done"
    /\ UNCHANGED <<config, storage, vda, next_batch_id, stopped, availability_update,
                   signed, restarts, iteration, writes>>

NextGather ==
    \/ VdaStartup
    \/ BeginValidate
    \/ \E object_name \in {"vault", "order", "rollup_vault"} :
          StartUpdate(object_name) \/ FinishUpdate(object_name)
    \/ VerifyRoots
    \/ WriteBatchInfo
    \/ SignClaim
    \/ SubmitSignature

SpecGather == InitGather /\ [][NextGather]_vars

\* The key of the batch holds the batch info the call built.
BatchInfoWritten ==
    /\ Call.batch_info # None
    /\ storage.new[Call.batch_id] = Some(Serialize(Call.batch_info[1]))

\* C20: the tasks of the validated names start and finish in any order; the
\* roots are verified and the batch info is written only when every task has
\* finished; the claim is signed only when the batch info is stored, and sent
\* only when it is signed; and what is stored, signed and sent is what the
\* call computes when it runs in one piece.
C20_WriteAfterUpdatesSignatureAfterWrite ==
    /\ [][(pc = "vda_gather" /\ pc' # "vda_gather") =>
             (GatherDone(Call) /\ DOMAIN Call.roots_dict = Call.names)]_vars
    /\ [][(pc # "vda_start" /\ storage' # storage) =>
             /\ pc = "vda_write"
             /\ GatherDone(Call)
             /\ DOMAIN Call.roots_dict = Call.names
             /\ signed = None
             /\ BatchInfoWritten']_vars
    /\ [][signed' # signed =>
             (pc = "vda_sign" /\ BatchInfoWritten /\ UNCHANGED storage)]_vars
    /\ [][accepted' # accepted =>
             (pc = "vda_send" /\ signed # None /\ BatchInfoWritten
                /\ UNCHANGED <<storage, signed>>)]_vars
    /\ [](pc = "vda_send" =>
             LET result == validate_data_availability(
                               Call.before, config, Call.batch_id, Call.state_update,
                               TRUE)
             IN  /\ result.ok
                 /\ result.storage = storage
                 /\ result.batch_info = Call.batch_info
                 /\ result.signature = Some(signed[1].signature)
                 /\ result.availability_claim = Some(signed[1].claim_hash))

\* C20 happens: the three tasks started in one order and finished in the
\* opposite one, and the gateway accepted the signature.
C20_Witness ==
    /\ pc = "vda_done"
    /\ Call.started = <<"vault", "order", "rollup_vault">>
    /\ Call.finished = <<"rollup_vault", "order", "vault">>
    /\ BatchInfoWritten
    /\ signed # None
    /\ Call.batch_id \in accepted

(***************************************************************************)
(* The Merkle tree over its fact store.  The specifications of this part   *)
(* use the variables as follows: storage is the fact store, config the     *)
(* height and the leaf fact empty_tree is called with, vda the call that   *)
(* is in progress or was made last, accepted the trees returned so far     *)
(* with what they read when they were returned, writes every (key, value)  *)
(* ever set, and iteration the number of leaf modifications made so far.   *)
(***************************************************************************)

\* Number of leaf modifications made to the trees of one behaviour.
MaxModifications == 2

TreeHeights == 0 .. TreeHeight + 1

TreeLeaves == {VaultEmpty, VaultLeaf}

\* The fact store: a function from the keys that were set to their bytes.
EmptyFactStore == [key \in {} |-> None]

\* A store whose set_value replaces the record that holds the other keys.
set_value_ReplacesAll(store, key, value) == [k \in {key} |-> value]

set_value(store, key, value) ==
    [k \in DOMAIN store \cup {key} |-> IF k = key THEN value ELSE store[k]]

get_value(store, key) == IF key \in DOMAIN store THEN Some(store[key]) ELSE None

\* Leaf facts are stored under their prefix and hash, as their fields.
LeafKey(leaf_hash) == <<"vault_state", leaf_hash>>

LeafSerialize(leaf) == <<leaf.stark_key, leaf.token, leaf.balance>>

LeafDeserialize(data) == VaultState(data[1], data[2], data[3])

\* MerkleNodeFact: the two hashes, concatenated; the key is its prefix and hash.
NodeKey(fact_hash) == <<"merkle_node", fact_hash>>

MerkleNodeFact(left_node, right_node) == [left_node |-> left_node, right_node |-> right_node]

NodeSerialize(fact) == fact.left_node \o fact.right_node

NodeDeserialize(data) ==
    MerkleNodeFact(SubSeq(data, 1, Len(data) \div 2),
                   SubSeq(data, Len(data) \div 2 + 1, Len(data)))

\* read_node_fact: the node fact stored under a hash, None when there is none.
read_node_fact(store, fact_hash) ==
    LET data == get_value(store, NodeKey(fact_hash))
    IN  IF data = None THEN None ELSE Some(NodeDeserialize(data[1]))

\* Children that keep the height of their parent.
node_get_children_SameHeight(store, tree) ==
    LET root_fact == read_node_fact(store, tree.root)
    IN  IF root_fact = None
        THEN None
        ELSE Some(<<[root |-> root_fact[1].left_node, height |-> tree.height],
                    [root |-> root_fact[1].right_node, height |-> tree.height]>>)

\* MerkleTreeNode.get_children over the store: None when the fact is missing.
node_get_children(store, tree) ==
    LET root_fact == read_node_fact(store, tree.root)
    IN  IF root_fact = None
        THEN None
        ELSE Some(<<[root |-> root_fact[1].left_node, height |-> tree.height - 1],
                    [root |-> root_fact[1].right_node, height |-> tree.height - 1]>>)

\* get_node, line 90: the binary digits of the index after the first, the
\* most significant first.
RECURSIVE Dirs(_)
Dirs(index) == IF index <= 1 THEN <<>> ELSE Append(Dirs(index \div 2), index % 2)

\* A descent that takes the right child for a 0 bit and the left for a 1 bit.
RECURSIVE DescendMirrored(_, _, _)
DescendMirrored(store, node, dirs) ==
    IF dirs = <<>>
    THEN Some(node)
    ELSE LET children == node_get_children(store, node)
         IN  IF children = None
             THEN None
             ELSE DescendMirrored(store, children[1][2 - Head(dirs)], Tail(dirs))

get_node_Mirrored(store, tree, index) == DescendMirrored(store, tree, Dirs(index))

\* get_node, lines 92-96: from the tree down, one child for each direction;
\* None when get_children fails on the way.
RECURSIVE Descend(_, _, _)
Descend(store, node, dirs) ==
    IF dirs = <<>>
    THEN Some(node)
    ELSE LET children == node_get_children(store, node)
         IN  IF children = None
             THEN None
             ELSE Descend(store, children[1][Head(dirs) + 1], Tail(dirs))

\* MerkleTreeNode.get_node: 1 is the tree itself, 2 and 3 are its children.
get_node(store, tree, index) == Descend(store, tree, Dirs(index))

\* The leaf fact read at one leaf index, None when a fact on the way is missing.
get_leaf(store, tree, index) ==
    LET node == get_node(store, tree, 2 ^ tree.height + index)
    IN  IF node = None
        THEN None
        ELSE LET data == get_value(store, LeafKey(node[1].root))
             IN  IF data = None THEN None ELSE Some(LeafDeserialize(data[1]))

\* get_leaves: the leaves at the given indices, None when the read fails.
get_leaves(store, tree, indices) ==
    IF \E i \in indices : get_leaf(store, tree, i) = None
    THEN None
    ELSE Some([i \in indices |-> get_leaf(store, tree, i)[1]])

\* What a tree reads: its root, and below it the leaf fact stored for a tree
\* of height 0, else what its two children read; None where a fact is missing.
RECURSIVE TreeContent(_, _)
TreeContent(store, tree) ==
    IF tree.height = 0
    THEN LET data == get_value(store, LeafKey(tree.root))
         IN  [root |-> tree.root,
              below |-> IF data = None THEN None ELSE Some(LeafDeserialize(data[1]))]
    ELSE LET children == node_get_children(store, tree)
         IN  [root |-> tree.root,
              below |-> IF children = None
                        THEN None
                        ELSE Some(<<TreeContent(store, children[1][1]),
                                    TreeContent(store, children[1][2])>>)]

Returned(store, tree) == [tree |-> tree, content |-> TreeContent(store, tree)]

\* One store write, and its place in the history of writes.
SetValue(key, value) ==
    /\ storage' = set_value(storage, key, value)
    /\ writes' = writes \cup {<<key, value>>}

tree_fixed == <<next_batch_id, stopped, availability_update, signed, restarts>>

InitTree ==
    /\ config \in {[height |-> h, leaf_fact |-> leaf] : h \in TreeHeights, leaf \in TreeLeaves}
    /\ storage = EmptyFactStore
    /\ pc = "tree_start"
    /\ vda = None
    /\ next_batch_id = None
    /\ stopped = FALSE
    /\ availability_update = None
    /\ signed = None
    /\ restarts = 0
    /\ accepted = {}
    /\ iteration = 0
    /\ writes = {}

\* empty_tree, line 44: the leaf fact is stored, the tree of height 0 is its hash.
EmptyTreeSetFact ==
    /\ pc = "tree_start"
    /\ config.height >= 0
    /\ SetValue(LeafKey(LeafHash(config.leaf_fact)), LeafSerialize(config.leaf_fact))
    /\ vda' = [op |-> "empty_tree",
               tree |-> [root |-> LeafHash(config.leaf_fact), height |-> 0]]
    /\ pc' = "tree_empty"
    /\ UNCHANGED <<config, accepted, iteration, tree_fixed>>

\* empty_tree, lines 45-48: one more level, both children the tree so far.
EmptyTreeWriteNode ==
    /\ pc = "tree_empty"
    /\ vda.tree.height < config.height
    /\ LET root_fact == MerkleNodeFact(vda.tree.root, vda.tree.root)
           root == MerkleNodeHash(root_fact.left_node, root_fact.right_node)
       IN  /\ SetValue(NodeKey(root), NodeSerialize(root_fact))
           /\ vda' = [vda EXCEPT !.tree = [root |-> root, height |-> @.height + 1]]
    /\ UNCHANGED <<config, pc, accepted, iteration, tree_fixed>>

\* empty_tree, line 50: the tree is returned.
EmptyTreeReturn ==
    /\ pc = "tree_empty"
    /\ vda.tree.height = config.height
    /\ accepted' = accepted \cup {Returned(storage, vda.tree)}
    /\ pc' = "tree_idle"
    /\ UNCHANGED <<config, storage, vda, iteration, writes, tree_fixed>>

(***************************************************************************)
(* MerkleTree.update.  The planned update is a calculation per node index  *)
(* (1 is the root, 2^height + i the leaf i): a constant for a subtree that *)
(* holds no modified leaf, a leaf fact for a modified leaf, and a binary   *)
(* calculation of its two children for a node above a modified leaf.       *)
(***************************************************************************)
ConstantCalculation(value) == [kind |-> "constant", value |-> value]

LeafFactCalculation(fact) == [kind |-> "leaf", fact |-> fact]

BinaryCalculation(left, right) == [kind |-> "binary", left |-> left, right |-> right]

\* A carried-over subtree that forgets its root and stands for an empty one.
create_from_node_Empty(node) ==
    ConstantCalculation(empty_tree(node.height, VaultEmpty).root)

create_from_node(node) == ConstantCalculation(node.root)

create_from_fact(fact) == LeafFactCalculation(fact)

\* A parent that takes its children in the other order.
combine_Swapped(left, right) == BinaryCalculation(right, left)

combine(left, right) == BinaryCalculation(left, right)

\* The modifications as update_tree keeps them: per leaf index, the last
\* leaf given for it.
ModificationsMap(modifications) ==
    [i \in {modifications[k][1] : k \in DOMAIN modifications} |->
        LET last == CHOOSE k \in DOMAIN modifications :
                        /\ modifications[k][1] = i
                        /\ \A later \in DOMAIN modifications :
                               modifications[later][1] = i => later <= k
        IN  modifications[last][2]]

\* A range check that lets every index pass.
IndicesInRange_Unchecked(tree, modifications) == TRUE

IndicesInRange(tree, modifications) ==
    \A k \in DOMAIN modifications :
        0 <= modifications[k][1] /\ modifications[k][1] < 2 ^ tree.height

\* The nodes on the paths from the root to the modified leaves.
DirtyNodes(tree, modifications) ==
    {n \in 1 .. 2 ^ (tree.height + 1) - 1 :
        \E i \in DOMAIN ModificationsMap(modifications), d \in 0 .. tree.height :
            (2 ^ tree.height + i) \div (2 ^ d) = n}

\* The subtrees that are carried over: the tree itself when nothing is
\* modified, else the children of dirty nodes that are not dirty.
CarriedNodes(tree, modifications) ==
    LET dirty == DirtyNodes(tree, modifications)
    IN  IF dirty = {}
        THEN {1}
        ELSE {n \in 2 .. 2 ^ (tree.height + 1) - 1 : n \notin dirty /\ n \div 2 \in dirty}

\* The plan, None when a node fact it needs cannot be read.
PlanUpdate(store, tree, modifications) ==
    LET dirty == DirtyNodes(tree, modifications)
        carried == CarriedNodes(tree, modifications)
        updated == ModificationsMap(modifications)
    IN  IF \E n \in carried : get_node(store, tree, n) = None
        THEN None
        ELSE Some([n \in dirty \cup carried |->
                 IF n \in carried
                 THEN create_from_node(get_node(store, tree, n)[1])
                 ELSE IF n >= 2 ^ tree.height
                      THEN create_from_fact(updated[n - 2 ^ tree.height])
                      ELSE combine(2 * n, 2 * n + 1)])

\* The results a plan starts with: the values of its constants.
ConstantResults(calculation) ==
    [n \in {m \in DOMAIN calculation : calculation[m].kind = "constant"} |->
        calculation[n].value]

\* A calculation can be evaluated once its dependencies are.
Ready(calculation, results, n) ==
    /\ n \in DOMAIN calculation
    /\ n \notin DOMAIN results
    /\ calculation[n].kind = "binary" =>
           {calculation[n].left, calculation[n].right} \subseteq DOMAIN results

\* An evaluation that stores leaf facts and keeps inner node facts to itself.
CalculatedFact_NoNodeFact(calculation, results, n) ==
    IF calculation[n].kind = "leaf"
    THEN LET fact == calculation[n].fact
         IN  [hash |-> LeafHash(fact), key |-> Some(LeafKey(LeafHash(fact))),
              value |-> Some(LeafSerialize(fact))]
    ELSE [hash |-> MerkleNodeHash(results[calculation[n].left],
                                  results[calculation[n].right]),
          key |-> None, value |-> None]

\* An evaluation that keeps the hash and never stores the leaf fact.
CalculatedFact_NoLeafFact(calculation, results, n) ==
    IF calculation[n].kind = "leaf"
    THEN [hash |-> LeafHash(calculation[n].fact), key |-> None, value |-> None]
    ELSE LET fact == MerkleNodeFact(results[calculation[n].left],
                                    results[calculation[n].right])
             fact_hash == MerkleNodeHash(fact.left_node, fact.right_node)
         IN  [hash |-> fact_hash, key |-> Some(NodeKey(fact_hash)),
              value |-> Some(NodeSerialize(fact))]

\* calculate: the hash of one node's fact, and the fact to store under it.
CalculatedFact(calculation, results, n) ==
    IF calculation[n].kind = "leaf"
    THEN LET fact == calculation[n].fact
         IN  [hash |-> LeafHash(fact), key |-> Some(LeafKey(LeafHash(fact))),
              value |-> Some(LeafSerialize(fact))]
    ELSE LET fact == MerkleNodeFact(results[calculation[n].left],
                                    results[calculation[n].right])
             fact_hash == MerkleNodeHash(fact.left_node, fact.right_node)
         IN  [hash |-> fact_hash, key |-> Some(NodeKey(fact_hash)),
              value |-> Some(NodeSerialize(fact))]

\* The leaf indices a caller modifies: the first two and the last two of the
\* tree, and the indices just outside its range.
ModifiedLeafIndices(tree) ==
    {i \in -1 .. 2 ^ tree.height : i <= 1 \/ i >= 2 ^ tree.height - 2}

\* The modification lists a caller passes, as long as the behaviour has
\* modifications left.
ModificationLists(tree, left) ==
    UNION {[1 .. n -> ModifiedLeafIndices(tree) \X TreeLeaves] : n \in 0 .. left}

\* update is called on a tree returned earlier; indices out of range are
\* rejected before anything is read.
BeginUpdate ==
    /\ pc = "tree_idle"
    /\ \E returned \in accepted :
       \E modifications \in ModificationLists(returned.tree, MaxModifications - iteration) :
          /\ iteration' = iteration + Len(modifications)
          /\ IF IndicesInRange(returned.tree, modifications)
             THEN /\ vda' = [op |-> "update", tree |-> returned.tree,
                             modifications |-> modifications, calculation |-> None,
                             results |-> None, fact_nodes |-> {},
                             result |-> None, error |-> None]
                  /\ pc' = "tree_plan"
             ELSE /\ vda' = [op |-> "update", tree |-> returned.tree,
                             modifications |-> modifications, calculation |-> None,
                             results |-> None, fact_nodes |-> {}, result |-> None,
                             error |-> Some("AssertionError")]
                  /\ pc' = "tree_idle"
    /\ UNCHANGED <<config, storage, accepted, writes, tree_fixed>>

\* The plan is made: the node facts above the modified leaves are read.
PlanStep ==
    /\ pc = "tree_plan"
    /\ LET plan == PlanUpdate(storage, vda.tree, vda.modifications)
       IN  IF plan = None
           THEN /\ vda' = [vda EXCEPT !.error = Some("AssertionError")]
                /\ pc' = "tree_idle"
           ELSE /\ vda' = [vda EXCEPT !.calculation = plan,
                                      !.results = Some(ConstantResults(plan[1]))]
                /\ pc' = "tree_eval"
    /\ UNCHANGED <<config, storage, accepted, iteration, writes, tree_fixed>>

\* The results with one more node's hash.
WithResult(results, n, hash) ==
    [m \in DOMAIN results \cup {n} |-> IF m = n THEN hash ELSE results[m]]

\* One calculation whose dependencies are evaluated is evaluated: its fact
\* is hashed, put in the call's fact_nodes and written.
EvaluateNode(n) ==
    /\ pc = "tree_eval"
    /\ Ready(vda.calculation[1], vda.results[1], n)
    /\ LET calculated == CalculatedFact(vda.calculation[1], vda.results[1], n)
       IN  IF calculated.key = None
           THEN /\ UNCHANGED <<storage, writes>>
                /\ vda' = [vda EXCEPT !.results = Some(WithResult(@[1], n, calculated.hash))]
           ELSE /\ SetValue(calculated.key[1], calculated.value[1])
                /\ vda' = [vda EXCEPT
                               !.results = Some(WithResult(@[1], n, calculated.hash)),
                               !.fact_nodes =
                                   @ \cup {<<calculated.key[1], calculated.value[1]>>}]
    /\ UNCHANGED <<config, pc, accepted, iteration, tree_fixed>>

\* The root is evaluated: update returns the new tree.
ReturnUpdate ==
    /\ pc = "tree_eval"
    /\ 1 \in DOMAIN vda.results[1]
    /\ LET new_tree == [root |-> vda.results[1][1], height |-> vda.tree.height]
       IN  /\ vda' = [vda EXCEPT !.calculation = None, !.results = None,
                                  !.result = Some(new_tree)]
           /\ accepted' = accepted \cup {Returned(storage, new_tree)}
    /\ pc' = "tree_idle"
    /\ UNCHANGED <<config, storage, iteration, writes, tree_fixed>>

\* A store read or write fails: update raises and returns nothing.
UpdateRaises ==
    /\ pc \in {"tree_plan", "tree_eval"}
    /\ vda' = [vda EXCEPT !.calculation = None, !.results = None,
                          !.fact_nodes = {}, !.error = Some("StorageError")]
    /\ pc' = "tree_idle"
    /\ UNCHANGED <<config, storage, accepted, iteration, writes, tree_fixed>>

NextTree ==
    \/ EmptyTreeSetFact
    \/ EmptyTreeWriteNode
    \/ EmptyTreeReturn
    \/ BeginUpdate
    \/ PlanStep
    \/ \E n \in 1 .. 2 ^ (TreeHeight + 2) - 1 : EvaluateNode(n)
    \/ ReturnUpdate
    \/ UpdateRaises

SpecTree == InitTree /\ [][NextTree]_vars

(***************************************************************************)
(* Claims about the Merkle tree and its fact store.                        *)
(***************************************************************************)

\* The depth of a node index: 0 for the root, 1 for its children.
RECURSIVE NodeDepth(_)
NodeDepth(n) == IF n = 1 THEN 0 ELSE 1 + NodeDepth(n \div 2)

\* C21: the tree empty_tree writes has, while it is built and when it is
\* returned, the root that empty_tree_roots lists for its height, and its
\* nodes read from the store are the listed roots of their heights;
\* empty_tree_roots(h, L) has h + 1 elements, the first is L's hash and each
\* next one is the hash of the one before paired with itself.
C21_EmptyTreeRootIsTheListedRoot ==
    (pc \in {"tree_empty", "tree_idle"} /\ vda.op = "empty_tree") =>
        LET roots == empty_tree_roots(config.height, config.leaf_fact)
            tree == vda.tree
        IN  /\ Len(roots) = config.height + 1
            /\ roots[1] = LeafHash(config.leaf_fact)
            /\ \A k \in 1 .. config.height : roots[k + 1] = hash_func(roots[k], roots[k])
            /\ tree.root = roots[tree.height + 1]
            /\ pc = "tree_idle" =>
                   /\ tree.height = config.height
                   /\ tree.root = roots[config.height + 1]
                   /\ \A n \in 1 .. 2 ^ (tree.height + 1) - 1 :
                          get_node(storage, tree, n) =
                              Some([root |-> roots[tree.height - NodeDepth(n) + 1],
                                    height |-> tree.height - NodeDepth(n)])
                   /\ get_leaves(storage, tree, 0 .. 2 ^ tree.height - 1) =
                          Some([i \in 0 .. 2 ^ tree.height - 1 |-> config.leaf_fact])

\* C21 happens: empty_tree returned a tree of the greatest height whose
\* leaves are all one leaf that is not the empty vault.
C21_Witness ==
    /\ pc = "tree_idle"
    /\ vda.op = "empty_tree"
    /\ config.height = TreeHeight + 1
    /\ config.leaf_fact = VaultLeaf
    /\ vda.tree.height = TreeHeight + 1
    /\ \E r \in accepted : r.tree = vda.tree

\* The update that is in progress or was made last, and its parts.
UpdateCall == vda # None /\ vda.op = "update"

UpdateReturned == UpdateCall /\ pc = "tree_idle" /\ vda.result # None

UniqueIndices(modifications) ==
    \A j, k \in DOMAIN modifications :
        modifications[j][1] = modifications[k][1] => j = k

\* The modifications seen as a map: each index with the leaf paired with it.
AsMap(modifications) ==
    [i \in {modifications[k][1] : k \in DOMAIN modifications} |->
        modifications[CHOOSE k \in DOMAIN modifications : modifications[k][1] = i][2]]

\* The root of the node at an index, told from the root's hash alone.
RECURSIVE SubtreeRoot(_, _)
SubtreeRoot(root, n) ==
    IF n = 1 THEN root ELSE get_children(SubtreeRoot(root, n \div 2))[(n % 2) + 1]

\* C22: whatever the order of the modifications (with unique indices) and the
\* order in which the calculations are evaluated, every evaluated node has
\* the hash that follows from the input tree's root and height and from the
\* modifications as a map, and so has the root that update returns.
C22_UpdateRootIsAFunctionOfTreeAndMap ==
    (UpdateCall /\ UniqueIndices(vda.modifications)) =>
        LET expected == update(vda.tree, AsMap(vda.modifications))
        IN  /\ pc = "tree_eval" =>
                   \A n \in DOMAIN vda.results[1] :
                       vda.results[1][n] = SubtreeRoot(expected.root, n)
            /\ UpdateReturned => vda.result = Some(expected)

\* C22 happens: two leaves in different halves of the tree were given, the
\* greater index first, and update returned a new root.
C22_Witness ==
    /\ UpdateReturned
    /\ Len(vda.modifications) = 2
    /\ vda.modifications[1][1] > vda.modifications[2][1]
    /\ vda.modifications[2][1] = 0
    /\ vda.modifications[1][1] = 2 ^ vda.tree.height - 1
    /\ vda.tree.height = TreeHeight + 1
    /\ vda.result[1].root # vda.tree.root

\* C22 happens in the middle: the right leaf was evaluated before the left.
C22_RightBeforeLeft ==
    /\ UpdateCall
    /\ pc = "tree_eval"
    /\ vda.tree.height = TreeHeight + 1
    /\ 2 ^ (vda.tree.height + 1) - 1 \in DOMAIN vda.results[1]
    /\ 2 ^ vda.tree.height \in DOMAIN vda.calculation[1] \ DOMAIN vda.results[1]

\* C23: once update has returned for modifications with unique indices,
\* get_leaves on the returned tree, asked for the modified indices or for any
\* of them alone, reads the leaves the modifications assign; so a single
\* leaf x written at index i of an empty tree is read back as {i: x}.
C23_ModifiedLeavesAreReadBack ==
    (UpdateReturned /\ UniqueIndices(vda.modifications)) =>
        LET assigned == AsMap(vda.modifications)
        IN  /\ get_leaves(storage, vda.result[1], DOMAIN assigned) = Some(assigned)
            /\ \A i \in DOMAIN assigned :
                   get_leaves(storage, vda.result[1], {i}) = Some([j \in {i} |-> assigned[i]])

\* C23 happens: one non-empty leaf was written at the last index of the
\* empty tree of the greatest height, and update returned.
C23_Witness ==
    /\ UpdateReturned
    /\ vda.tree = empty_tree(TreeHeight + 1, VaultEmpty)
    /\ vda.modifications = <<<<2 ^ (TreeHeight + 1) - 1, VaultLeaf>>>>
    /\ get_leaves(storage, vda.result[1], {2 ^ (TreeHeight + 1) - 1}) =
           Some([j \in {2 ^ (TreeHeight + 1) - 1} |-> VaultLeaf])

\* The update gives every index it modifies the leaf the input tree holds.
NoOpUpdate ==
    /\ UpdateCall
    /\ IndicesInRange(vda.tree, vda.modifications)
    /\ \A k \in DOMAIN vda.modifications :
           get_leaf(storage, vda.tree, vda.modifications[k][1]) =
               Some(vda.modifications[k][2])

LeafFactPair(leaf) == <<LeafKey(LeafHash(leaf)), LeafSerialize(leaf)>>

\* C24: an update that gives every modified index the leaf the tree already
\* holds returns the input tree, root and height; and each of these leaf
\* facts was put in the call's facts and set in the store by this call.
C24_NoOpUpdateKeepsTheRootAndWritesTheLeaf ==
    (NoOpUpdate /\ UpdateReturned) =>
        /\ vda.result = Some(vda.tree)
        /\ \A k \in DOMAIN vda.modifications :
               LET pair == LeafFactPair(vda.modifications[k][2])
               IN  /\ pair \in vda.fact_nodes
                   /\ pair \in writes
                   /\ get_value(storage, pair[1]) = Some(pair[2])

\* C24 happens: the tree got a non-empty leaf from an earlier update, the
\* same modification was made again, and update returned.
C24_Witness ==
    /\ NoOpUpdate
    /\ UpdateReturned
    /\ vda.modifications = <<<<1, VaultLeaf>>>>
    /\ vda.tree.height = TreeHeight + 1
    /\ vda.tree = update(empty_tree(TreeHeight + 1, VaultEmpty), AsMap(vda.modifications))
    /\ vda.result = Some(vda.tree)

\* The leaf indices below a node of a tree of the given height.
NodeRange(n, height) ==
    LET depth == NodeDepth(n)
        width == 2 ^ (height - depth)
    IN  ((n - 2 ^ depth) * width) .. ((n - 2 ^ depth + 1) * width - 1)

ModifiedIndexSet(modifications) == {modifications[k][1] : k \in DOMAIN modifications}

\* The nodes of the updated tree whose range holds no modified index.
UntouchedNodes(tree, modifications) ==
    {n \in 1 .. 2 ^ (tree.height + 1) - 1 :
        NodeRange(n, tree.height) \cap ModifiedIndexSet(modifications) = {}}

\* The key under which the fact of a node of a tree is stored.
FactKeyOf(tree, node) ==
    IF node.height = 0 THEN LeafKey(node.root) ELSE NodeKey(node.root)

\* C25: when update has returned, every leaf index that was not modified
\* reads in the new tree the leaf it reads in the input tree, every node
\* whose range holds no modified index is in the new tree the node it is in
\* the input tree, and every fact the call calculated and wrote is the
\* fact of a node above or at a modified leaf.
C25_UnmodifiedSubtreesAreCarriedOver ==
    UpdateReturned =>
        LET old == vda.tree
            new == vda.result[1]
            untouched == UntouchedNodes(old, vda.modifications)
        IN  /\ \A j \in (0 .. 2 ^ old.height - 1) \ ModifiedIndexSet(vda.modifications) :
                   /\ get_leaf(storage, new, j) # None
                   /\ get_leaf(storage, new, j) = get_leaf(storage, old, j)
            /\ \A n \in untouched :
                   /\ get_node(storage, new, n) # None
                   /\ get_node(storage, new, n) = get_node(storage, old, n)
            /\ \A pair \in vda.fact_nodes :
                   \E n \in (1 .. 2 ^ (old.height + 1) - 1) \ untouched :
                       pair[1] = FactKeyOf(new, get_node(storage, new, n)[1])
            /\ Cardinality(vda.fact_nodes) <=
                   Cardinality((1 .. 2 ^ (old.height + 1) - 1) \ untouched)

\* C25 happens: the input tree holds a non-empty leaf at index 0, the update
\* changed the last leaf only, and the left half of the new tree is the left
\* half of the input tree.
C25_Witness ==
    /\ UpdateReturned
    /\ vda.tree.height = TreeHeight + 1
    /\ vda.modifications = <<<<2 ^ (TreeHeight + 1) - 1, VaultLeaf>>>>
    /\ get_leaf(storage, vda.tree, 0) = Some(VaultLeaf)
    /\ get_leaf(storage, vda.result[1], 0) = Some(VaultLeaf)
    /\ get_node(storage, vda.result[1], 2) = get_node(storage, vda.tree, 2)
    /\ vda.result[1].root # vda.tree.root

\* Every node and leaf of the content was read: nothing is missing.
RECURSIVE FullyReadAt(_, _)
FullyReadAt(content, height) ==
    /\ content.below # None
    /\ height > 0 =>
           /\ FullyReadAt(content.below[1][1], height - 1)
           /\ FullyReadAt(content.below[1][2], height - 1)

FullyRead(returned) == FullyReadAt(returned.content, returned.tree.height)

\* C26: every (key, value) ever set is in the store under its key with the
\* same bytes, no step removes a key or changes its bytes, and every tree
\* returned so far reads the same nodes and leaves as when it was returned.
C26_StoreOnlyGrowsAndTreesStayReadable ==
    /\ [](\A pair \in writes : get_value(storage, pair[1]) = Some(pair[2]))
    /\ [][\A key \in DOMAIN storage :
              get_value(storage', key) = get_value(storage, key)]_vars
    /\ [](\A returned \in accepted :
              /\ FullyRead(returned)
              /\ TreeContent(storage, returned.tree) = returned.content)
    /\ [][accepted \subseteq accepted']_vars

\* C26 happens: the empty tree and the trees two updates returned are three
\* different trees, and one update overwrote a leaf the other had written.
C26_Witness ==
    /\ pc = "tree_idle"
    /\ config.height = TreeHeight + 1
    /\ Cardinality(accepted) = 3
    /\ UpdateReturned
    /\ vda.modifications = <<<<0, VaultEmpty>>>>
    /\ get_leaf(storage, vda.tree, 0) = Some(VaultLeaf)
    /\ \E returned \in accepted :
           /\ returned.tree = vda.tree
           /\ TreeContent(storage, returned.tree) = returned.content

\* Some modification of the call has its index outside [0, 2^height).
IndexOutOfRange ==
    \E k \in DOMAIN vda.modifications :
        vda.modifications[k][1] < 0 \/ vda.modifications[k][1] >= 2 ^ vda.tree.height

\* C27: an update with a modification whose index is outside [0, 2^height)
\* fails at once: it has an error and no result, it plans, calculates and
\* writes nothing, and no tree is returned for it.
C27_OutOfRangeIndexIsRejected ==
    /\ [](UpdateCall /\ IndexOutOfRange =>
              /\ pc = "tree_idle"
              /\ vda.error # None
              /\ vda.result = None
              /\ vda.calculation = None
              /\ vda.fact_nodes = {})
    /\ [][(UpdateCall /\ IndexOutOfRange)' /\ vda' # vda =>
              UNCHANGED <<storage, accepted, writes>>]_vars

\* C27 happens: a list with a leaf inside the range and a leaf just past
\* its end was refused, and so was a list with a negative index.
C27_Witness ==
    /\ UpdateCall
    /\ pc = "tree_idle"
    /\ vda.tree.height = TreeHeight + 1
    /\ vda.modifications = <<<<0, VaultLeaf>>, <<2 ^ (TreeHeight + 1), VaultLeaf>>>>
    /\ vda.error = Some("AssertionError")
    /\ vda.result = None

C27_WitnessNegative ==
    /\ UpdateCall
    /\ pc = "tree_idle"
    /\ vda.modifications = <<<<-1, VaultLeaf>>>>
    /\ vda.error = Some("AssertionError")
    /\ vda.result = None

UpdateFailed == UpdateCall /\ pc = "tree_idle" /\ vda.error # None

\* C28: the tree update returns is fully readable from the store as it was
\* before the returning step, and the facts the call calculated are in the
\* store; an update that failed has no result, its step returned no tree,
\* and its input tree and every tree returned earlier read what they read
\* when they were returned.
C28_RootOnlyAfterAllFactsAreWritten ==
    /\ [][\A returned \in accepted' \ accepted :
              /\ FullyRead(Returned(storage, returned.tree))
              /\ UNCHANGED storage]_vars
    /\ [](UpdateReturned =>
              /\ FullyRead(Returned(storage, vda.result[1]))
              /\ \A pair \in vda.fact_nodes : get_value(storage, pair[1]) = Some(pair[2])
              /\ \E returned \in accepted : returned.tree = vda.result[1])
    /\ [](UpdateFailed =>
              /\ vda.result = None
              /\ FullyRead(Returned(storage, vda.tree))
              /\ \A returned \in accepted :
                     TreeContent(storage, returned.tree) = returned.content)
    /\ [][UpdateFailed' /\ vda' # vda => UNCHANGED accepted]_vars

\* C28 happens: the update of the empty tree failed after it had written a
\* non-empty leaf fact; the empty tree is the only tree returned.
C28_Witness ==
    /\ UpdateFailed
    /\ vda.error = Some("StorageError")
    /\ config = [height |-> TreeHeight + 1, leaf_fact |-> VaultEmpty]
    /\ LeafFactPair(VaultLeaf) \in writes
    /\ accepted = {Returned(storage, empty_tree(TreeHeight + 1, VaultEmpty))}
    /\ vda.result = None

(***************************************************************************)
(* dump_tree_diff over a loaded tree.  The specification uses the          *)
(* variables as follows: config is the leaf class, the height, the rows    *)
(* loaded, the node index and n_workers; storage is the fact store after   *)
(* the load; vda is the traversal: the queue of nodes to visit, the calls  *)
(* of process_node in flight, the rows written so far, the nodes visited   *)
(* and the facts read.                                                     *)
(***************************************************************************)

\* Number of workers of the traversal.
MaxWorkers == 2

DumpHeight == TreeHeight + 1

\* Number of rows of a loaded file.
MaxRows == 3

\* Rows of the csv files: (vault_id, stark_key, token, balance) and
\* (order_id, fulfilled_amount).
RowLeaf(kind, row) ==
    IF kind = "order" THEN OrderState(row[2]) ELSE VaultState(row[2], row[3], row[4])

LeafRow(kind, leaf_id, leaf) ==
    IF kind = "order"
    THEN <<leaf_id, leaf.fulfilled_amount>>
    ELSE <<leaf_id, leaf.stark_key, leaf.token, leaf.balance>>

DefaultLeaf(kind) == IF kind = "order" THEN OrderEmpty ELSE VaultEmpty

\* Leaf facts of either class in the store.
ClassLeafKey(kind, leaf_hash) ==
    <<IF kind = "order" THEN "order_state" ELSE "vault_state", leaf_hash>>

ClassLeafSerialize(kind, leaf) ==
    IF kind = "order" THEN <<leaf.fulfilled_amount>> ELSE LeafSerialize(leaf)

ClassLeafDeserialize(kind, data) ==
    IF kind = "order" THEN OrderState(data[1]) ELSE LeafDeserialize(data)

\* The rows a file holds: at most MaxRows rows with distinct ids
\* among the first two and the last two leaves.  A vault row has a positive
\* balance; the fulfilled amount of an order row is zero or more.
RowSets(kind) ==
    LET ids == {i \in 0 .. 2 ^ DumpHeight - 1 : i <= 1 \/ i >= 2 ^ DumpHeight - 2}
        rows == IF kind = "order"
                THEN {<<i, amount>> : i \in ids, amount \in {0, 1}}
                ELSE {<<i, 1, 1, balance>> : i \in ids, balance \in {1, 2}}
    IN  {file \in SUBSET rows :
            /\ Cardinality(file) <= MaxRows
            /\ \A r1, r2 \in file : r1[1] = r2[1] => r1 = r2}

\* The leaves of the loaded tree: the row's leaf where a row names the
\* index, the default leaf elsewhere.
LoadedLeaves(kind, rows) ==
    [i \in 0 .. 2 ^ DumpHeight - 1 |->
        IF \E row \in rows : row[1] = i
        THEN RowLeaf(kind, CHOOSE row \in rows : row[1] = i)
        ELSE DefaultLeaf(kind)]

\* The root and the facts of the subtree of the given height whose first
\* leaf has the given index.
RECURSIVE SubtreeFacts(_, _, _, _)
SubtreeFacts(kind, leaves, height, first) ==
    IF height = 0
    THEN [root |-> LeafHash(leaves[first]),
          facts |-> {<<ClassLeafKey(kind, LeafHash(leaves[first])),
                       ClassLeafSerialize(kind, leaves[first])>>}]
    ELSE LET left == SubtreeFacts(kind, leaves, height - 1, first)
             right == SubtreeFacts(kind, leaves, height - 1, first + 2 ^ (height - 1))
             fact == MerkleNodeFact(left.root, right.root)
             root == MerkleNodeHash(fact.left_node, fact.right_node)
         IN  [root |-> root,
              facts |-> left.facts \cup right.facts
                            \cup {<<NodeKey(root), NodeSerialize(fact)>>}]

\* The store and the tree after the rows are loaded into an empty tree:
\* the facts of the empty tree and the facts of the tree with the rows.
LoadedTree(kind, rows) ==
    LET empty == SubtreeFacts(kind, [i \in 0 .. 2 ^ DumpHeight - 1 |-> DefaultLeaf(kind)],
                              DumpHeight, 0)
        loaded == SubtreeFacts(kind, LoadedLeaves(kind, rows), DumpHeight, 0)
        facts == empty.facts \cup loaded.facts
    IN  [tree |-> [root |-> loaded.root, height |-> DumpHeight],
         store |-> [key \in {fact[1] : fact \in facts} |->
                       (CHOOSE fact \in facts : fact[1] = key)[2]]]

\* dump_vaults_tree dumps the whole tree and may write a nodes file;
\* dump_orders_tree dumps below a node and writes no nodes file.
DumpCalls ==
    {[kind |-> "vault", rows |-> rows, tree |-> LoadedTree("vault", rows).tree,
      node_idx |-> 1, nodes_file |-> TRUE, n_workers |-> MaxWorkers] :
        rows \in RowSets("vault")}
    \cup {[kind |-> "order", rows |-> rows, tree |-> LoadedTree("order", rows).tree,
           node_idx |-> node_idx, nodes_file |-> FALSE, n_workers |-> MaxWorkers] :
             rows \in RowSets("order"), node_idx \in 1 .. 2 ^ (DumpHeight + 1) - 1}

\* The tree the load returned.
DumpTree == config.tree

InitDump ==
    /\ config \in DumpCalls
    /\ storage = LoadedTree(config.kind, config.rows).store
    /\ pc = "dump_start"
    /\ vda = None
    /\ next_batch_id = None
    /\ stopped = FALSE
    /\ availability_update = None
    /\ signed = None
    /\ restarts = 0
    /\ accepted = {}
    /\ iteration = 0
    /\ writes = {}

dump_fixed == <<config, storage, next_batch_id, stopped, availability_update, signed,
                restarts, accepted, iteration, writes>>

\* A traversal that starts a call for every queued node, whatever is in flight.
WorkerFree_Unbounded(in_flight, n_workers) == TRUE

\* A worker is free: fewer than n_workers calls are in flight.
WorkerFree(in_flight, n_workers) == Cardinality(in_flight) < n_workers

\* A dump that knows no empty tree and goes down to every leaf.
empty_trees_None(tree, default_leaf) == {}

\* dump_tree_diff, lines 19-21: the roots of the empty trees of every height.
empty_trees(tree, default_leaf) == Range(empty_tree_roots(tree.height, default_leaf))

\* A dump that puts both children under the left child's index.
Children_SameIndex(index, node_children) ==
    {<<2 * index, node_children[1]>>, <<2 * index, node_children[2]>>}

\* process_node, lines 41-43: the children to continue into.
Children(index, node_children) ==
    {<<2 * index, node_children[1]>>, <<2 * index + 1, node_children[2]>>}

\* The calls of process_node so far: how many for each node index.
Visit(visited, index) ==
    [i \in DOMAIN visited \cup {index} |->
        (IF i \in DOMAIN visited THEN visited[i] ELSE 0) + (IF i = index THEN 1 ELSE 0)]

\* dump_tree_diff, lines 45-50: the traversal starts at the node of the index.
BeginDump ==
    /\ pc = "dump_start"
    /\ LET root == get_node(storage, DumpTree, config.node_idx)
       IN  /\ root # None
           /\ vda' = [queue |-> {<<config.node_idx, root[1]>>}, in_flight |-> {},
                      nodes_rows |-> {}, leaves_rows |-> <<>>, visited |-> <<>>,
                      reads |-> {}]
    /\ pc' = "dump_traverse"
    /\ UNCHANGED dump_fixed

\* process_node, lines 27-35, for a node that roots an empty tree: the call
\* returns without waiting for anything.
ProcessEmptyNode(node_tuple) ==
    /\ pc = "dump_traverse"
    /\ node_tuple \in vda.queue
    /\ WorkerFree(vda.in_flight, config.n_workers)
    /\ node_tuple[2].root \in empty_trees(DumpTree, DefaultLeaf(config.kind))
    /\ vda' = [vda EXCEPT
                  !.queue = @ \ {node_tuple},
                  !.visited = Visit(@, node_tuple[1]),
                  !.nodes_rows = IF config.nodes_file
                                 THEN @ \cup {<<node_tuple[1], Hex(node_tuple[2].root)>>}
                                 ELSE @]
    /\ UNCHANGED <<pc, dump_fixed>>

\* process_node, lines 27-41: the call writes the node's row and waits for
\* the leaf fact or for the node's children.
StartNode(node_tuple) ==
    /\ pc = "dump_traverse"
    /\ node_tuple \in vda.queue
    /\ WorkerFree(vda.in_flight, config.n_workers)
    /\ node_tuple[2].root \notin empty_trees(DumpTree, DefaultLeaf(config.kind))
    /\ vda' = [vda EXCEPT
                  !.queue = @ \ {node_tuple},
                  !.in_flight = @ \cup {node_tuple},
                  !.visited = Visit(@, node_tuple[1]),
                  !.nodes_rows = IF config.nodes_file
                                 THEN @ \cup {<<node_tuple[1], Hex(node_tuple[2].root)>>}
                                 ELSE @]
    /\ UNCHANGED <<pc, dump_fixed>>

\* dump_vault_leaf and dump_order_leaf: the row of the leaf fact stored
\* under the node's root.
DumpLeafRow(kind, tree, index, node, store) ==
    LeafRow(kind, index - 2 ^ tree.height,
            ClassLeafDeserialize(kind, store[ClassLeafKey(kind, node.root)]))

\* process_node, lines 37-39: the leaf's row is written.
FinishLeaf(node_tuple) ==
    /\ pc = "dump_traverse"
    /\ node_tuple \in vda.in_flight
    /\ node_tuple[2].height = 0
    /\ ClassLeafKey(config.kind, node_tuple[2].root) \in DOMAIN storage
    /\ vda' = [vda EXCEPT
                  !.in_flight = @ \ {node_tuple},
                  !.reads = @ \cup {<<node_tuple[1],
                                      ClassLeafKey(config.kind, node_tuple[2].root)>>},
                  !.leaves_rows = Append(@, DumpLeafRow(config.kind, DumpTree, node_tuple[1],
                                                        node_tuple[2], storage))]
    /\ UNCHANGED <<pc, dump_fixed>>

\* process_node, lines 40-43: the node's children are put in the queue.
FinishNode(node_tuple) ==
    /\ pc = "dump_traverse"
    /\ node_tuple \in vda.in_flight
    /\ node_tuple[2].height > 0
    /\ LET node_children == node_get_children(storage, node_tuple[2])
       IN  /\ node_children # None
           /\ vda' = [vda EXCEPT
                         !.in_flight = @ \ {node_tuple},
                         !.reads = @ \cup {<<node_tuple[1], NodeKey(node_tuple[2].root)>>},
                         !.queue = @ \cup Children(node_tuple[1], node_children[1])]
    /\ UNCHANGED <<pc, dump_fixed>>

\* The queue is empty and no call is in flight: the traversal returns and
\* the files are flushed.
EndDump ==
    /\ pc = "dump_traverse"
    /\ vda.queue = {}
    /\ vda.in_flight = {}
    /\ pc' = "dump_done"
    /\ UNCHANGED <<vda, dump_fixed>>

NextDump ==
    \/ BeginDump
    \/ \E node_tuple \in (IF pc = "dump_traverse" THEN vda.queue ELSE {}) :
           ProcessEmptyNode(node_tuple)
    \/ \E node_tuple \in (IF pc = "dump_traverse" THEN vda.queue ELSE {}) :
           StartNode(node_tuple)
    \/ \E node_tuple \in (IF pc = "dump_traverse" THEN vda.in_flight ELSE {}) :
           FinishLeaf(node_tuple)
    \/ \E node_tuple \in (IF pc = "dump_traverse" THEN vda.in_flight ELSE {}) :
           FinishNode(node_tuple)
    \/ EndDump

SpecDump == InitDump /\ [][NextDump]_vars

\* The node of index n is the node of index ancestor or lies below it.
Under(n, ancestor) == \E depth \in 0 .. DumpHeight : n \div (2 ^ depth) = ancestor

\* The rows of the loaded file whose leaf lies under the dumped node.
LoadedUnderNode ==
    {row \in config.rows : Under(row[1] + 2 ^ DumpHeight, config.node_idx)}

DumpDone == pc = "dump_done"

NoRowTwice(rows) == \A i, j \in DOMAIN rows : rows[i] = rows[j] => i = j

\* C29: after rows with distinct indices are loaded into an empty tree, the
\* dump of the tree, or of the subtree below a node index, writes exactly
\* the rows loaded under that node: none is missing, none is extra, none is
\* written twice and none comes from a sibling subtree.
C29_DumpEmitsExactlyTheLoadedRows ==
    DumpDone =>
        /\ Range(vda.leaves_rows) = LoadedUnderNode
        /\ NoRowTwice(vda.leaves_rows)

\* The rows the dump does write: the loaded rows under the node whose leaf
\* is not the default leaf, each once.
C29_DumpEmitsTheLoadedRowsThatAreNotEmpty ==
    DumpDone =>
        /\ Range(vda.leaves_rows) =
               {row \in LoadedUnderNode :
                   RowLeaf(config.kind, row) # DefaultLeaf(config.kind)}
        /\ NoRowTwice(vda.leaves_rows)

\* A dump of a subtree that holds a loaded row while its sibling holds
\* another has finished.
C29_SubtreeDumped ==
    /\ DumpDone
    /\ config.node_idx > 1
    /\ vda.leaves_rows # <<>>
    /\ LoadedUnderNode # config.rows

\* The load is build_merkle_tree: under SpecTree, the first update of the
\* empty tree of vaults returns the tree of LoadedTree, and leaves the store
\* of LoadedTree.
LoadedTreeIsTheEmptyTreeUpdated ==
    (/\ UpdateReturned
     /\ config = [height |-> DumpHeight, leaf_fact |-> VaultEmpty]
     /\ vda.tree = empty_tree(DumpHeight, VaultEmpty)
     /\ iteration = Len(vda.modifications)
     /\ UniqueIndices(vda.modifications))
    => LET rows == {LeafRow("vault", vda.modifications[k][1], vda.modifications[k][2]) :
                       k \in DOMAIN vda.modifications}
       IN  /\ vda.result[1] = LoadedTree("vault", rows).tree
           /\ storage = LoadedTree("vault", rows).store

Traversing == pc = "dump_traverse"

\* C30: during a traversal with n_workers workers, at most n_workers calls
\* of process_node are in flight, whatever the tree and the order in which
\* the calls finish.
C30_AtMostNWorkersInFlight ==
    Traversing => Cardinality(vda.in_flight) <= config.n_workers

\* Every worker is busy while a node waits in the queue, and the calls in
\* flight are at different depths.
C30_Witness ==
    /\ Traversing
    /\ Cardinality(vda.in_flight) = config.n_workers
    /\ \E node_tuple \in vda.queue :
           node_tuple[2].root \notin empty_trees(DumpTree, DefaultLeaf(config.kind))
    /\ \E node1, node2 \in vda.in_flight : node1[2].height # node2[2].height

(***************************************************************************)
(* AerospikeStorage: setnx_value, set_value, get_value and del_value, each *)
(* a call of sync_set, sync_get or sync_del under                          *)
(* run_with_retry_on_timeouts.  The specification uses the variables as    *)
(* follows: storage is the records of the server, vda is the operation in  *)
(* progress or the last one, pc is the position in the operation and       *)
(* iteration counts the operations begun.                                  *)
(***************************************************************************)

\* lines 19-21: the second assignment is the one in force.
RETRY_COUNT == 10

\* Number of storage operations in a behavior.
MaxOps == 2

StorageKeys == {"key"}

StorageValues == {"v1", "v2"}

POLICY_EXISTS_CREATE == "create"

POLICY_EXISTS_IGNORE == "ignore"

\* A policy for sync_del that raises the last timeout, as sync_set's does.
RetryPolicy_Reraise(op) ==
    [count |-> RETRY_COUNT, fail_value |-> None, reraise_on_fail |-> TRUE]

\* The decorations of sync_set, sync_get and sync_del: lines 165, 183, 193.
RetryPolicy(op) ==
    IF op = "del"
    THEN [count |-> RETRY_COUNT, fail_value |-> FALSE, reraise_on_fail |-> FALSE]
    ELSE [count |-> RETRY_COUNT, fail_value |-> None, reraise_on_fail |-> TRUE]

\* The write policy of the operation: lines 115-116, 122, 129.
WritePolicy(op) == IF op = "setnx" THEN POLICY_EXISTS_CREATE ELSE POLICY_EXISTS_IGNORE

\* A driver that writes over an existing record whatever the policy.
ClientCall_Overwrites(store, op, key, value) ==
    CASE op \in {"setnx", "set"} ->
             [store |-> set_value(store, key, value), returns |-> Some(TRUE)]
      [] op = "get" ->
             [store |-> store,
              returns |-> Some(IF key \in DOMAIN store THEN store[key] ELSE None)]
      [] op = "del" ->
             [store |-> [k \in DOMAIN store \ {key} |-> store[k]],
              returns |-> Some(key \in DOMAIN store)]

\* What the server does with the request, and what sync_set, sync_get or
\* sync_del return when the driver answers: client.put under the write
\* policy (lines 167-175), client.get (185-191), client.remove (195-199).
ClientCall(store, op, key, value) ==
    CASE op \in {"setnx", "set"} ->
             IF WritePolicy(op) = POLICY_EXISTS_CREATE /\ key \in DOMAIN store
             THEN [store |-> store, returns |-> Some(FALSE)]
             ELSE [store |-> set_value(store, key, value), returns |-> Some(TRUE)]
      [] op = "get" ->
             [store |-> store,
              returns |-> Some(IF key \in DOMAIN store THEN store[key] ELSE None)]
      [] op = "del" ->
             [store |-> [k \in DOMAIN store \ {key} |-> store[k]],
              returns |-> Some(key \in DOMAIN store)]

InitStorage ==
    /\ storage \in {EmptyFactStore, [k \in StorageKeys |-> "v1"]}
    /\ pc = "storage_idle"
    /\ vda = None
    /\ config = None
    /\ next_batch_id = None
    /\ stopped = FALSE
    /\ availability_update = None
    /\ signed = None
    /\ restarts = 0
    /\ accepted = {}
    /\ iteration = 0
    /\ writes = {}

storage_fixed == <<config, next_batch_id, stopped, availability_update, signed, restarts,
                   accepted, writes>>

\* setnx_value, set_value, get_value, del_value: lines 119-139.
BeginOp(op, key, value) ==
    /\ pc = "storage_idle"
    /\ iteration < MaxOps
    /\ iteration' = iteration + 1
    /\ vda' = [op |-> op, key |-> key, value |-> value, n_retries |-> 1, calls |-> 0,
               before |-> storage, applied |-> FALSE, timeouts |-> 0,
               result |-> None, raised |-> None]
    /\ pc' = "storage_call"
    /\ UNCHANGED <<storage, storage_fixed>>

\* line 32: the driver answers and func returns.
ClientAnswers ==
    /\ pc = "storage_call"
    /\ LET call == ClientCall(storage, vda.op, vda.key, vda.value)
       IN  /\ storage' = call.store
           /\ vda' = [vda EXCEPT
                         !.calls = @ + 1,
                         !.applied = @ \/ (call.store # storage),
                         !.result = call.returns]
    /\ pc' = "storage_idle"
    /\ UNCHANGED <<iteration, storage_fixed>>

\* lines 176-181: the record is too big; the exception is no TimeoutError
\* and leaves the wrapper.
ClientRecordTooBig ==
    /\ pc = "storage_call"
    /\ vda.op \in {"setnx", "set"}
    /\ vda' = [vda EXCEPT !.calls = @ + 1, !.raised = Some("RecordTooBig")]
    /\ pc' = "storage_idle"
    /\ UNCHANGED <<storage, iteration, storage_fixed>>

\* lines 33-46: the driver raises TimeoutError; the server has applied the
\* request or has not.  The wrapper raises on the last attempt when
\* reraise_on_fail is set, returns fail_value after the last attempt
\* otherwise, and calls func again before that.
ClientTimesOut(server_applied) ==
    /\ pc = "storage_call"
    /\ LET call == ClientCall(storage, vda.op, vda.key, vda.value)
           policy == RetryPolicy(vda.op)
           last == vda.n_retries = policy.count
           called == [vda EXCEPT
                         !.calls = @ + 1,
                         !.timeouts = @ + 1,
                         !.applied = @ \/ (server_applied /\ call.store # storage)]
       IN  /\ storage' = IF server_applied THEN call.store ELSE storage
           /\ IF last /\ policy.reraise_on_fail
              THEN /\ vda' = [called EXCEPT !.raised = Some("TimeoutError")]
                   /\ pc' = "storage_idle"
              ELSE IF last
              THEN /\ vda' = [called EXCEPT !.result = Some(policy.fail_value)]
                   /\ pc' = "storage_idle"
              ELSE /\ vda' = [called EXCEPT !.n_retries = @ + 1]
                   /\ pc' = "storage_call"
    /\ UNCHANGED <<iteration, storage_fixed>>

NextStorage ==
    \/ \E op \in {"setnx", "set", "get", "del"}, key \in StorageKeys, value \in StorageValues :
           BeginOp(op, key, value)
    \/ ClientAnswers
    \/ ClientRecordTooBig
    \/ \E server_applied \in BOOLEAN : ClientTimesOut(server_applied)

SpecStorage == InitStorage /\ [][NextStorage]_vars

OpDone(op) == pc = "storage_idle" /\ vda # None /\ vda.op = op

OpReturned(op) == OpDone(op) /\ vda.result # None

OpRaised(op) == OpDone(op) /\ vda.raised # None

SetnxContract ==
    /\ vda.result[1] = TRUE <=> vda.applied
    /\ vda.result[1] = TRUE =>
           /\ vda.key \notin DOMAIN vda.before
           /\ storage[vda.key] = vda.value
    /\ vda.result[1] = FALSE =>
           /\ vda.key \in DOMAIN vda.before
           /\ storage = vda.before

\* C31: setnx_value returns true if and only if this call stored the value:
\* true when the key was absent and now holds the value, false when the key
\* held a value, which is left as it was; also when an attempt timed out and
\* the write was retried.
C31_SetnxReturnsTrueIffItStored == OpReturned("setnx") => SetnxContract

\* The same for calls none of whose attempts timed out.
C31_SetnxWithoutTimeoutReturnsTrueIffItStored ==
    (OpReturned("setnx") /\ vda.timeouts = 0) => SetnxContract

\* The driver is called at most RETRY_COUNT times for an operation, and
\* again only after a timeout.
BoundedRetries ==
    vda # None =>
        /\ vda.calls <= RETRY_COUNT
        /\ vda.calls <= vda.timeouts + 1
        /\ pc = "storage_call" => vda.calls = vda.timeouts

\* A failure that is no timeout leaves the operation at once.
RecordTooBigSurfaces ==
    (vda # None /\ vda.raised = Some("RecordTooBig")) =>
        /\ pc = "storage_idle"
        /\ vda.calls = vda.timeouts + 1
        /\ vda.result = None

LastAttemptTimedOut(op) == OpDone(op) /\ vda.timeouts = RETRY_COUNT

\* C32 as stated: every get, set and delete calls the driver at most
\* RETRY_COUNT = 10 times, again only after a timeout; a timeout of the last
\* attempt reaches the caller as an error; record-too-big reaches the caller
\* at once.
C32_LastTimeoutSurfacesForEveryOperation ==
    /\ BoundedRetries
    /\ RecordTooBigSurfaces
    /\ \A op \in {"setnx", "set", "get", "del"} :
           LastAttemptTimedOut(op) => vda.raised = Some("TimeoutError")

\* C32, amended: every get, set and delete calls the driver at most
\* RETRY_COUNT = 10 times, again only after a timeout; a timeout of the last
\* attempt of a get or a set reaches the caller as an error, while a delete
\* whose last attempt timed out raises nothing (sync_del returns False);
\* record-too-big reaches the caller at once.
C32_LastTimeoutSurfacesForGetAndSet ==
    /\ BoundedRetries
    /\ RecordTooBigSurfaces
    /\ \A op \in {"setnx", "set", "get"} :
           LastAttemptTimedOut(op) =>
               vda.raised = Some("TimeoutError") /\ vda.result = None
    /\ LastAttemptTimedOut("del") =>
           vda.raised = None /\ vda.result = Some(FALSE)

\* A delete of a record an earlier operation left has timed out RETRY_COUNT
\* times.
C32_Witness ==
    /\ LastAttemptTimedOut("del")
    /\ vda.calls = RETRY_COUNT
    /\ iteration = MaxOps
    /\ vda.before # EmptyFactStore

(***************************************************************************)
(* HttpRetryPolicy.send_http_request, called from an iteration of          *)
(* Committee.run.  The specification uses the variables as follows: config *)
(* is the retry policy, vda is the request in progress or the last one, pc *)
(* is the position in the request and in the run loop, and iteration       *)
(* counts the requests begun.                                              *)
(***************************************************************************)

\* availability_gateway_client.py, line 27.
GatewayRetryCount == 9

\* Largest retry_count of the other policies.
MaxRetryCount == 2

\* Number of requests in a behavior.
MaxRequests == 2

RetryErrorCodes == {"BAD_GATEWAY", "SERVICE_UNAVAILABLE", "GATEWAY_TIMEOUT"}

\* AvailabilityGatewayClient.__init__, lines 25-36.
GatewayPolicy ==
    [success_code |-> "OK", retry_count |-> GatewayRetryCount, timeout_gen |-> Some("i + 1"),
     retry_error_codes |-> RetryErrorCodes]

\* HttpRetryPolicy.__init__ with the default timeout_gen.
DefaultPolicies ==
    {[success_code |-> "OK", retry_count |-> retry_count, timeout_gen |-> None,
      retry_error_codes |-> RetryErrorCodes] : retry_count \in 0 .. MaxRetryCount}

\* A wait of one second whatever the policy.
timeout_gen_OneSecond(policy, attempt) == 1

\* lines 62-65: the wait after the failed attempt of the given number.
timeout_gen(policy, attempt) == IF policy.timeout_gen = None THEN 1 ELSE attempt + 1

\* What one request ends with: a response with a status, asyncio.TimeoutError,
\* or another error of the connection.
HttpStatuses == {"OK", "BAD_REQUEST"} \cup RetryErrorCodes

SingleRequestOutcomes == HttpStatuses \cup {"TimeoutError", "ClientError"}

\* _send_single_http_request, lines 92-97: the exception of the outcome,
\* None when the text is returned.
SingleRequestException(policy, outcome) ==
    IF outcome \in HttpStatuses
    THEN IF outcome # policy.success_code THEN Some("BadHttpRequest") ELSE None
    ELSE Some(outcome)

\* A policy that sends again after every failure.
retry_exception_Always(policy, outcome) == TRUE

\* retry_exception, lines 82-87.
retry_exception(policy, outcome) ==
    IF SingleRequestException(policy, outcome) = Some("BadHttpRequest")
    THEN outcome \in policy.retry_error_codes
    ELSE outcome = "TimeoutError"

InitHttp ==
    /\ config \in {GatewayPolicy} \cup DefaultPolicies
    /\ pc = "run_iteration"
    /\ vda = None
    /\ storage = None
    /\ next_batch_id = None
    /\ stopped = FALSE
    /\ availability_update = None
    /\ signed = None
    /\ restarts = 0
    /\ accepted = {}
    /\ iteration = 0
    /\ writes = {}

http_fixed == <<config, storage, next_batch_id, stopped, availability_update, signed,
                restarts, accepted, writes>>

\* Committee.run, lines 330-332, and send_http_request, lines 103-105: an
\* iteration of the loop sends a request.
BeginRequest ==
    /\ pc = "run_iteration"
    /\ iteration < MaxRequests
    /\ iteration' = iteration + 1
    /\ vda' = [attempt |-> 0, sent |-> 0, slept |-> <<>>, last |-> None, retried_after |-> {},
               result |-> None, raised |-> None, caught |-> FALSE]
    /\ pc' = "http_send"
    /\ UNCHANGED http_fixed

\* send_http_request, lines 105-119 and 122-127: one request is sent and
\* ends.  Inside the loop a success returns the text, a failure
\* retry_exception accepts goes on to the sleep and any other failure is
\* raised; after the loop a success returns the text and every failure is
\* raised as TooManyAttempts.
SingleRequest(outcome) ==
    /\ pc = "http_send"
    /\ LET ex == SingleRequestException(config, outcome)
           request == [vda EXCEPT !.sent = @ + 1, !.last = Some(outcome)]
       IN  IF ex = None
           THEN /\ vda' = [request EXCEPT !.result = Some("text")]
                /\ pc' = "run_iteration"
           ELSE IF vda.attempt < config.retry_count
           THEN IF retry_exception(config, outcome)
                THEN /\ vda' = request
                     /\ pc' = "http_sleep"
                ELSE /\ vda' = [request EXCEPT !.raised = ex]
                     /\ pc' = "run_except"
           ELSE /\ vda' = [request EXCEPT !.raised = Some("TooManyAttempts")]
                /\ pc' = "run_except"
    /\ UNCHANGED <<iteration, http_fixed>>

\* send_http_request, lines 120-121: the wait before the next attempt.
SleepBeforeRetry ==
    /\ pc = "http_sleep"
    /\ vda' = [vda EXCEPT
                  !.slept = Append(@, timeout_gen(config, vda.attempt)),
                  !.retried_after = @ \cup {vda.last[1]},
                  !.attempt = @ + 1]
    /\ pc' = "http_send"
    /\ UNCHANGED <<iteration, http_fixed>>

\* Committee.run, lines 355-358: the exception is caught and logged, the
\* loop sleeps for the polling interval and goes to its next iteration.
RunCatches ==
    /\ pc = "run_except"
    /\ vda' = [vda EXCEPT !.caught = TRUE]
    /\ pc' = "run_iteration"
    /\ UNCHANGED <<iteration, http_fixed>>

NextHttp ==
    \/ BeginRequest
    \/ \E outcome \in SingleRequestOutcomes : SingleRequest(outcome)
    \/ SleepBeforeRetry
    \/ RunCatches

SpecHttp == InitHttp /\ [][NextHttp]_vars

RequestFailed == vda # None /\ vda.raised # None

\* The failures the policy answers with another attempt.
RetryableOutcomes == {"BAD_GATEWAY", "SERVICE_UNAVAILABLE", "GATEWAY_TIMEOUT", "TimeoutError"}

\* The exception a failed single request raises.
FailureOf(outcome) ==
    IF outcome \in {"TimeoutError", "ClientError"} THEN outcome ELSE "BadHttpRequest"

\* The run loop catches whatever the request raises and goes to its next
\* iteration.
RunCatchesAndRetries ==
    [][(pc = "run_except") => (pc' = "run_iteration" /\ vda'.caught)]_vars

\* C33 as stated: every send_http_request that returns no body raises
\* TooManyAttempts, whatever the failure and the attempt; the run loop
\* catches it and retries the iteration.
C33_EveryFailureIsTooManyAttempts ==
    RequestFailed => vda.raised = Some("TooManyAttempts")

\* C33, amended: a send_http_request that returns no body raises
\* TooManyAttempts when the failure is that of the last attempt (attempt
\* retry_count), whatever its kind; a failure on an earlier attempt that is
\* neither a retryable status nor a timeout ends the request at once and is
\* raised as itself; the run loop catches either and retries the iteration.
C33_LastFailureIsTooManyAttempts ==
    /\ [](RequestFailed =>
            /\ vda.last[1] # config.success_code
            /\ IF vda.attempt = config.retry_count
               THEN vda.raised = Some("TooManyAttempts")
               ELSE /\ vda.raised = Some(FailureOf(vda.last[1]))
                    /\ vda.last[1] \notin RetryableOutcomes)
    /\ []((vda # None /\ vda.last # None
             /\ vda.last[1] \notin RetryableOutcomes \cup {config.success_code})
            => RequestFailed)
    /\ RunCatchesAndRetries

\* The gateway's policy has raised BadHttpRequest on an attempt before the
\* last, after a retry; the run loop has caught it and begun again.
C33_Witness ==
    /\ config = GatewayPolicy
    /\ RequestFailed
    /\ vda.raised = Some("BadHttpRequest")
    /\ vda.attempt = 1
    /\ vda.caught
    /\ pc = "run_iteration"

\* C37: send_http_request makes at most retry_count + 1 attempts, 10 for
\* the gateway client; it sends another attempt only after a failure with
\* status 502, 503 or 504 or a timeout, and waits timeout_gen(n), one second
\* by default, after failed attempt n; it returns the body of the first
\* attempt that yields the success status, with no attempt after it.
C37_AttemptsAreBoundedAndSpaced ==
    vda # None =>
        /\ vda.sent <= config.retry_count + 1
        /\ config = GatewayPolicy => vda.sent <= 10
        /\ vda.sent = vda.attempt + (IF pc = "http_send" THEN 0 ELSE 1)
        /\ vda.retried_after \subseteq RetryableOutcomes
        /\ Len(vda.slept) = vda.attempt
        /\ \A n \in 1 .. Len(vda.slept) :
               vda.slept[n] = IF config = GatewayPolicy THEN n ELSE 1
        /\ vda.result # None =>
               /\ vda.last = Some(config.success_code)
               /\ pc = "run_iteration"
               /\ vda.raised = None
        /\ (vda.last = Some(config.success_code)) => vda.result # None

\* The gateway's request has returned the body of its tenth attempt.
C37_Witness ==
    /\ config = GatewayPolicy
    /\ vda # None
    /\ vda.sent = 10
    /\ vda.result # None
    /\ vda.slept = <<1, 2, 3, 4, 5, 6, 7, 8, 9>>
    /\ vda.retried_after = RetryableOutcomes

(***************************************************************************)
(* validate_data_availability under every setting of the switches, also    *)
(* for committees that are configured without order or with rollup_vault   *)
(* in its place.                                                           *)
(***************************************************************************)
SwitchObjects ==
    CommitteeObjects \cup {<<"vault">>, <<"vault", "rollup_vault">>}

SwitchConfigs ==
    {Config(names, vo, vr) :
        names \in SwitchObjects, vo \in BOOLEAN, vr \in {"True", "False", "None"}}

InitSwitches ==
    /\ config \in SwitchConfigs
    /\ storage = EmptyStorage
    /\ pc = "vda_start"
    /\ vda = None
    /\ next_batch_id = None
    /\ stopped = FALSE
    /\ availability_update = None
    /\ signed = None
    /\ restarts = 0
    /\ accepted = {}
    /\ iteration = None
    /\ writes = [b \in BatchIds |-> "none"]

SpecSwitches == InitSwitches /\ [][NextVda]_vars

SwitchCall == pc = "vda_done"

\* The names the switches leave: every configured name, but for order when
\* validate_orders is false and for rollup_vault when validate_rollup is False.
NamesToRecompute ==
    (Range(config.names) \ (IF config.validate_orders THEN {} ELSE {"order"}))
        \ (IF config.validate_rollup = "False" THEN {"rollup_vault"} ELSE {})

\* A name to be removed is not configured, or validate_rollup is None while
\* rollup_vault is configured.
SwitchesRefused ==
    \/ ~config.validate_orders /\ "order" \notin Range(config.names)
    \/ config.validate_rollup = "False" /\ "rollup_vault" \notin Range(config.names)
    \/ config.validate_rollup = "None" /\ "rollup_vault" \in Range(config.names)

\* C34: the objects whose roots are recomputed are all configured names,
\* minus order when validate_orders is false, minus rollup_vault when
\* validate_rollup is False; when validate_rollup is None and rollup_vault
\* is configured, and when a name to be removed is not configured,
\* validate_data_availability fails before any tree update is computed and
\* before any batch info is persisted.
C34_RecomputedNamesFollowTheSwitches ==
    SwitchCall =>
        /\ Call.result.computed \in {{}, NamesToRecompute}
        /\ Call.result.ok => Call.result.computed = NamesToRecompute
        /\ (Call.result.ok \/ Call.result.computed # {}) => ~SwitchesRefused
        /\ SwitchesRefused =>
               /\ ~Call.result.ok
               /\ Call.result.computed = {}
               /\ Call.result.batch_info = None
               /\ storage = Call.before

\* A committee without order and with validate_orders false has refused a
\* state update whose previous batch info is stored.
C34_Witness ==
    /\ SwitchCall
    /\ config = Config(<<"vault", "rollup_vault">>, FALSE, "True")
    /\ Call.result.error = "validated names"
    /\ Call.state_update.objects # <<>>

(***************************************************************************)
(* get_node on a loaded tree, over a store that holds every fact of the    *)
(* tree or lacks one inner node fact.  config is the rows loaded and the   *)
(* keys the store lacks, vda is the call and what it returned.             *)
(***************************************************************************)
NodeCallsOf(kind) ==
    UNION {{[kind |-> kind, rows |-> rows, tree |-> LoadedTree(kind, rows).tree,
             missing |-> missing] :
               missing \in {{}} \cup
                   {{key} : key \in {k \in DOMAIN LoadedTree(kind, rows).store :
                                        k[1] = "merkle_node"}}} :
              rows \in RowSets(kind)}

NodeCalls == NodeCallsOf("vault") \cup NodeCallsOf("order")

InitGetNode ==
    /\ config \in NodeCalls
    /\ storage = [key \in DOMAIN LoadedTree(config.kind, config.rows).store \ config.missing |->
                     LoadedTree(config.kind, config.rows).store[key]]
    /\ pc = "get_node_start"
    /\ vda = None
    /\ next_batch_id = None
    /\ stopped = FALSE
    /\ availability_update = None
    /\ signed = None
    /\ restarts = 0
    /\ accepted = {}
    /\ iteration = 0
    /\ writes = {}

\* MerkleTreeNode.get_node, lines 82-96, on the loaded tree.
GetNode(index) ==
    /\ pc = "get_node_start"
    /\ vda' = [index |-> index, result |-> get_node(storage, DumpTree, index)]
    /\ pc' = "get_node_done"
    /\ UNCHANGED dump_fixed

NextGetNode == \E index \in 0 .. 2 ^ (DumpHeight + 2) - 1 : GetNode(index)

SpecGetNode == InitGetNode /\ [][NextGetNode]_vars

GotNode == pc = "get_node_done" /\ vda.index >= 1

\* The indices of the nodes above the node of index n.
NodesAbove(n) == {n \div (2 ^ depth) : depth \in 1 .. NodeDepth(n)}

\* An inner node fact on the way to the node is not in the store.
FactMissingOnPath(n) ==
    \E above \in NodesAbove(n) :
        /\ NodeDepth(above) < DumpHeight
        /\ NodeKey(SubtreeRoot(DumpTree.root, above)) \notin DOMAIN storage

\* C35: get_node(tree, 1) is the tree itself; get_node(tree, 2i) and
\* get_node(tree, 2i+1) are the left and the right child of get_node(tree, i),
\* each of height one less; get_node fails, and returns no node, when an
\* inner node fact on the path is missing from the store or the index lies
\* deeper than the tree's height.
C35_GetNodeFollowsTheIndex ==
    GotNode =>
        LET node == vda.result
            left == get_node(storage, DumpTree, 2 * vda.index)
            right == get_node(storage, DumpTree, 2 * vda.index + 1)
        IN  /\ vda.index = 1 => node = Some(DumpTree)
            /\ (NodeDepth(vda.index) > DumpHeight \/ FactMissingOnPath(vda.index))
                   <=> node = None
            /\ node # None =>
                   /\ node[1].height = DumpHeight - NodeDepth(vda.index)
                   /\ node[1].root = SubtreeRoot(DumpTree.root, vda.index)
            /\ (node # None /\ left # None) =>
                   /\ left[1].height = node[1].height - 1
                   /\ left[1].root = read_node_fact(storage, node[1].root)[1].left_node
            /\ (node # None /\ right # None) =>
                   /\ right[1].height = node[1].height - 1
                   /\ right[1].root = read_node_fact(storage, node[1].root)[1].right_node
            /\ (left = None) <=> (right = None)
            /\ node = None => left = None

\* A right child below the root has been returned while the store lacks a
\* fact of the left half.
C35_Witness ==
    /\ GotNode
    /\ vda.index = 7
    /\ vda.result # None
    /\ config.missing # {}
    /\ get_node(storage, DumpTree, 4) = None

DumpRunning == pc \in {"dump_traverse", "dump_done"}

Visited == DOMAIN vda.visited

\* The node of the index roots an empty tree.
EmptyNode(n) ==
    SubtreeRoot(DumpTree.root, n) \in Range(empty_tree_roots(DumpHeight, DefaultLeaf(config.kind)))

StrictlyUnder(n, ancestor) == n # ancestor /\ Under(n, ancestor)

MaxLockRetries == 2

\* The ttl of a lock, in steps of the clock.
LockTtl == 2

Tasks == {"t1", "t2", "t3"}

LockManagers == {[n_retries |-> n_retries, ttl |-> LockTtl] : n_retries \in 0 .. MaxLockRetries}

\* A put that writes over the record of another holder.
LockPut_Ignore(record, task, ttl) ==
    [ok |-> TRUE, record |-> Some([by |-> task, ttl |-> ttl])]

\* try_lock, lines 51-60: client.put with POLICY_EXISTS_CREATE and the ttl;
\* RecordExistsError becomes LockError.
LockPut(record, task, ttl) ==
    IF record = None
    THEN [ok |-> TRUE, record |-> Some([by |-> task, ttl |-> ttl])]
    ELSE [ok |-> FALSE, record |-> record]

InitLock ==
    /\ config \in LockManagers
    /\ storage = None
    /\ vda = [t \in Tasks |-> [at |-> "idle", attempts |-> 0, raised |-> None]]
    /\ pc = "lock_manager"
    /\ next_batch_id = None
    /\ stopped = FALSE
    /\ availability_update = None
    /\ signed = None
    /\ restarts = 0
    /\ accepted = {}
    /\ iteration = 0
    /\ writes = {}

lock_fixed == <<config, pc, next_batch_id, stopped, availability_update, signed, restarts,
                accepted, writes>>

\* try_lock, lines 48-60, called by a task.
TryLock(task) ==
    /\ vda[task].at = "idle"
    /\ LET put == LockPut(storage, task, config.ttl)
       IN  /\ storage' = put.record
           /\ vda' = [vda EXCEPT ![task] =
                         IF put.ok
                         THEN [at |-> "holding", attempts |-> 1, raised |-> None]
                         ELSE [at |-> "done", attempts |-> 1, raised |-> Some("LockError")]]
    /\ UNCHANGED <<iteration, lock_fixed>>

\* lock, line 62: the task enters the loop.
BeginLock(task) ==
    /\ vda[task].at = "idle"
    /\ vda' = [vda EXCEPT ![task].at = "locking"]
    /\ UNCHANGED <<storage, iteration, lock_fixed>>

\* lock, lines 63-68: one pass of the loop, or the LockError after the loop.
LockAttempt(task) ==
    /\ vda[task].at = "locking"
    /\ IF vda[task].attempts < config.n_retries
       THEN LET put == LockPut(storage, task, config.ttl)
            IN  /\ storage' = put.record
                /\ vda' = [vda EXCEPT
                              ![task].attempts = @ + 1,
                              ![task].at = IF put.ok THEN "holding" ELSE "locking"]
       ELSE /\ vda' = [vda EXCEPT ![task].at = "done", ![task].raised = Some("LockError")]
            /\ UNCHANGED storage
    /\ UNCHANGED <<iteration, lock_fixed>>

\* extend, lines 26-27 and 70-74: client.touch gives the record its ttl
\* again, and raises when the record is gone; the exception leaves the
\* lock object, whose __aexit__ runs next.
Extend(task) ==
    /\ vda[task].at = "holding"
    /\ IF storage = None
       THEN /\ vda' = [vda EXCEPT ![task].raised = Some("RecordNotFound"),
                                  ![task].at = "leaving"]
            /\ UNCHANGED storage
       ELSE /\ storage # Some([storage[1] EXCEPT !.ttl = config.ttl])
            /\ storage' = Some([storage[1] EXCEPT !.ttl = config.ttl])
            /\ UNCHANGED vda
    /\ UNCHANGED <<iteration, lock_fixed>>

\* __aexit__, lines 23-24 and 76-77: client.remove removes the record of the
\* name, and raises when the record is gone.
ExitLock(task) ==
    /\ vda[task].at \in {"holding", "leaving"}
    /\ storage' = None
    /\ vda' = [vda EXCEPT
                  ![task].at = "done",
                  ![task].raised = IF storage = None THEN Some("RecordNotFound") ELSE @]
    /\ UNCHANGED <<iteration, lock_fixed>>

\* Time passes on the server: the record loses a step of its ttl, and is
\* gone when none is left.
Tick ==
    /\ storage # None
    /\ IF storage[1].ttl > 1
       THEN /\ storage' = Some([storage[1] EXCEPT !.ttl = @ - 1])
            /\ UNCHANGED iteration
       ELSE /\ storage' = None
            /\ iteration' = IF vda[storage[1].by].at \in {"holding", "leaving"}
                            THEN iteration + 1
                            ELSE iteration
    /\ UNCHANGED <<vda, lock_fixed>>

NextLock ==
    \/ \E task \in Tasks : TryLock(task)
    \/ \E task \in Tasks : BeginLock(task)
    \/ \E task \in Tasks : LockAttempt(task)
    \/ \E task \in Tasks : Extend(task)
    \/ \E task \in Tasks : ExitLock(task)
    \/ Tick

SpecLock == InitLock /\ [][NextLock]_vars

Holders == {task \in Tasks : vda[task].at \in {"holding", "leaving"}}

LockBounded ==
    \A task \in Tasks :
        /\ vda[task].at = "locking" => vda[task].attempts <= config.n_retries
        /\ (vda[task].at = "done" /\ vda[task].raised = Some("LockError"))
               => vda[task].attempts \in {1, config.n_retries}

\* C38 as stated: between a task's successful try_lock or lock and its exit
\* from the lock object no other task's try_lock succeeds, also when the
\* ttl runs out without extend and when another lock object exits; lock
\* makes at most n_retries attempts and raises LockError when all fail.
C38_OneHolderAtATime ==
    /\ Cardinality(Holders) <= 1
    /\ LockBounded

\* C38, amended: between a task's successful try_lock or lock and its exit
\* from the lock object no other task's try_lock succeeds, as long as the
\* ttl of no lock has run out before its holder's exit; lock makes at most
\* n_retries attempts and raises LockError when all fail.
C38_OneHolderWhileTheTtlLasts ==
    /\ iteration = 0 =>
           /\ Cardinality(Holders) <= 1
           /\ \A task \in Holders : storage # None /\ storage[1].by = task
           /\ \A task \in Tasks : vda[task].raised # Some("RecordNotFound")
    /\ LockBounded

\* A task holds the lock after it extended it, a second task has given up
\* after n_retries attempts of lock and a third was refused by try_lock.
C38_Witness ==
    /\ iteration = 0
    /\ config.n_retries = MaxLockRetries
    /\ vda["t1"].at = "holding"
    /\ storage = Some([by |-> "t1", ttl |-> LockTtl])
    /\ vda["t2"] = [at |-> "done", attempts |-> MaxLockRetries, raised |-> Some("LockError")]
    /\ vda["t3"] = [at |-> "done", attempts |-> 1, raised |-> Some("LockError")]

(***************************************************************************)
(* dump_state and load_state: main fills one queue with the tasks, starts  *)
(* n_processes workers that each take a task, run it as a subprocess and   *)
(* mark it done, and waits in queue.join().  The specification uses the    *)
(* variables as follows: config is the program and its arguments, pc is    *)
(* the position of main, vda holds the queue, its count of unfinished      *)
(* tasks, the workers, the archive and what became of each task, and       *)
(* writes records the final load of load_state.                            *)
(***************************************************************************)

\* Largest n_processes.
MaxProcesses == 2

\* Largest number of order tasks.
MaxOrderTasks == 2

\* dump_trees_utils.is_power_of_2.
is_power_of_2(x) == x \in {2 ^ k : k \in 0 .. MaxOrderTasks}

RECURSIVE OrderFiles(_, _)
OrderFiles(first, last) ==
    IF first > last THEN <<>> ELSE <<<<"orders", first>>>> \o OrderFiles(first + 1, last)

\* The queue that main fills: the order tasks, the vault task and, in
\* dump_state, the info task.
QueuedFiles(program, n_order_tasks) ==
    OrderFiles(n_order_tasks, 2 * n_order_tasks - 1) \o <<<<"vaults.csv">>>>
        \o (IF program = "dump_state" THEN <<<<"info.json">>>> ELSE <<>>)

Programs == {"dump_state", "load_state"}

ProgramCalls ==
    {[program |-> program, n_processes |-> n_processes,
      files |-> QueuedFiles(program, n_order_tasks)] :
        program \in Programs, n_processes \in 1 .. MaxProcesses,
        n_order_tasks \in {n \in 1 .. MaxOrderTasks : is_power_of_2(n)}}

ReturnCodes == {0, 1}

\* An archive that takes the file of a failed task too.
tar_add_Always(archive, filename, ret_code) == archive \cup {filename}

\* dump_state worker_func, lines 108-112: the file of a task is added when
\* the task's return code is zero.
tar_add(archive, filename, ret_code) ==
    IF ret_code # 0 THEN archive ELSE archive \cup {filename}

InitWorkers ==
    /\ config \in ProgramCalls
    /\ vda = [queue |-> config.files,
              unfinished |-> Len(config.files),
              workers |-> [w \in 1 .. config.n_processes |-> [at |-> "get", file |-> None]],
              archive |-> {},
              completed |-> 0,
              taken |-> <<>>,
              returned |-> {}]
    /\ pc = "join"
    /\ storage = EmptyFactStore
    /\ next_batch_id = None
    /\ stopped = FALSE
    /\ availability_update = None
    /\ signed = None
    /\ restarts = 0
    /\ accepted = {}
    /\ iteration = 0
    /\ writes = {}

workers_fixed == <<config, storage, next_batch_id, stopped, availability_update, signed,
                   restarts, accepted, iteration>>

\* worker_func: cmd, filename = await queue.get().
QueueGet(w) ==
    /\ pc = "join"
    /\ vda.workers[w].at = "get"
    /\ vda.queue # <<>>
    /\ vda' = [vda EXCEPT
                  !.queue = Tail(@),
                  !.taken = Append(@, [worker |-> w, file |-> Head(vda.queue)]),
                  !.workers[w] = [at |-> "spawn", file |-> Some(Head(vda.queue))]]
    /\ UNCHANGED <<pc, writes, workers_fixed>>

\* worker_func: create_subprocess_exec starts the subprocess, or raises;
\* the finally clause marks the task done and the exception ends the worker.
Spawn(w, started) ==
    /\ pc = "join"
    /\ vda.workers[w].at = "spawn"
    /\ vda' = IF started
              THEN [vda EXCEPT !.workers[w].at = "wait"]
              ELSE [vda EXCEPT !.workers[w] = [at |-> "raised", file |-> None],
                               !.unfinished = @ - 1]
    /\ UNCHANGED <<pc, writes, workers_fixed>>

\* worker_func: the subprocess exits with ret_code.  dump_state prints or
\* adds the file and goes on; load_state exits the program on a return code
\* other than zero.  The finally clause marks the task done.
SubprocessExits(w, ret_code) ==
    /\ pc = "join"
    /\ vda.workers[w].at = "wait"
    /\ LET filename == vda.workers[w].file[1]
           exits == config.program = "load_state" /\ ret_code # 0
       IN  /\ vda' = [vda EXCEPT
                         !.workers[w] = [at |-> IF exits THEN "exit" ELSE "get", file |-> None],
                         !.unfinished = @ - 1,
                         !.returned = @ \cup {<<filename, ret_code>>},
                         !.completed = IF ret_code # 0 THEN @ ELSE @ + 1,
                         !.archive = IF config.program = "dump_state"
                                     THEN tar_add(@, filename, ret_code)
                                     ELSE @]
           /\ pc' = IF exits THEN "exited" ELSE pc
    /\ UNCHANGED <<writes, workers_fixed>>

\* main: queue.join() returns when no task is unfinished.
JoinReturns ==
    /\ pc = "join"
    /\ vda.unfinished = 0
    /\ pc' = "cancel"
    /\ UNCHANGED <<vda, writes, workers_fixed>>

\* main: workers.cancel() and await workers, which raises the exception of
\* a worker that a failed spawn ended; then assert queue.empty().
CancelWorkers ==
    /\ pc = "cancel"
    /\ pc' = IF \E w \in DOMAIN vda.workers : vda.workers[w].at = "raised"
             THEN "raised"
             ELSE IF vda.queue # <<>>
                  THEN "assertion_error"
                  ELSE IF config.program = "load_state" THEN "final_load" ELSE "done"
    /\ UNCHANGED <<vda, writes, workers_fixed>>

\* load_state main, lines 107-121: the load of the info file, which sets
\* the next batch id.
FinalLoad ==
    /\ pc = "final_load"
    /\ writes' = writes \cup {"info.json"}
    /\ pc' = "done"
    /\ UNCHANGED <<vda, workers_fixed>>

NextWorkers ==
    \/ \E w \in DOMAIN vda.workers : QueueGet(w)
    \/ \E w \in DOMAIN vda.workers, started \in BOOLEAN : Spawn(w, started)
    \/ \E w \in DOMAIN vda.workers, ret_code \in ReturnCodes : SubprocessExits(w, ret_code)
    \/ JoinReturns
    \/ CancelWorkers
    \/ FinalLoad

\* Every ready task of the event loop runs and every subprocess exits.
SpecWorkers == InitWorkers /\ [][NextWorkers]_vars /\ WF_vars(NextWorkers)

FilesOf(files) == {files[i] : i \in DOMAIN files}

TakenBy(filename) == {i \in DOMAIN vda.taken : vda.taken[i].file = filename}

SubprocessesRunning == {w \in DOMAIN vda.workers : vda.workers[w].at = "wait"}

PassedJoin == pc \in {"cancel", "raised", "done", "final_load", "assertion_error"}

AllWorkersRaised == \A w \in DOMAIN vda.workers : vda.workers[w].at = "raised"

\* main can never leave queue.join(): the program has exited, or every
\* worker has ended while tasks are unfinished.
JoinOutOfReach == pc = "exited" \/ (pc = "join" /\ AllWorkersRaised /\ vda.unfinished > 0)

WorkersSafe ==
    /\ \A filename \in FilesOf(config.files) : Cardinality(TakenBy(filename)) <= 1
    /\ Cardinality(SubprocessesRunning) <= config.n_processes
    /\ PassedJoin =>
           /\ vda.queue = <<>>
           /\ \A filename \in FilesOf(config.files) : Cardinality(TakenBy(filename)) = 1
    /\ pc # "assertion_error"
    /\ config.program = "dump_state" =>
           /\ pc # "exited"
           /\ vda.archive = {filename \in FilesOf(config.files) : <<filename, 0>> \in vda.returned}
    /\ (config.program = "load_state" /\ (pc = "final_load" \/ writes # {})) =>
           \A filename \in FilesOf(config.files) : <<filename, 0>> \in vda.returned

C39_MainAlwaysPassesJoin == <>(PassedJoin /\ vda.queue = <<>>)

MAX_AMOUNT == 3

StarkKeys == 0 .. 2

Tokens == 0 .. 2

Balances == -1 .. MAX_AMOUNT

Diffs == -MAX_AMOUNT .. MAX_AMOUNT

VaultUpdates ==
    {[vault_id |-> 0, stark_key |-> stark_key, token |-> token, diff |-> diff] :
        stark_key \in StarkKeys, token \in Tokens, diff \in Diffs}

\* VaultState.__post_init__, lines 62-85: the construction raises, or gives
\* the vault with the key and the token of an empty balance set to zero.
VaultPostInit(stark_key, token, balance) ==
    IF ~(0 <= balance /\ balance < MAX_AMOUNT)
    THEN [raised |-> Some("OUT_OF_RANGE_BALANCE"), value |-> None]
    ELSE IF balance # 0 /\ (stark_key = 0 \/ token = 0)
         THEN [raised |-> Some("INVALID_VAULT"), value |-> None]
         ELSE [raised |-> None, value |-> Some(VaultState(stark_key, token, balance))]

\* VaultState.is_empty, lines 91-93.
is_empty(vault) == vault.stark_key = 0 /\ vault.token = 0 /\ vault.balance = 0

\* An add that takes the key and the token of any change.
VaultAdd_Unvalidated(vault, change) ==
    IF ~(0 <= vault.balance + change.diff /\ vault.balance + change.diff < MAX_AMOUNT)
    THEN [raised |-> Some("OUT_OF_RANGE_BALANCE"), value |-> None]
    ELSE VaultPostInit(change.stark_key, change.token, vault.balance + change.diff)

\* VaultState.add, lines 95-118.
VaultAdd(vault, change) ==
    IF vault.balance > 0 /\ (vault.stark_key # change.stark_key \/ vault.token # change.token)
    THEN [raised |-> Some("INVALID_VAULT"), value |-> None]
    ELSE IF ~(0 <= vault.balance + change.diff /\ vault.balance + change.diff < MAX_AMOUNT)
         THEN [raised |-> Some("OUT_OF_RANGE_BALANCE"), value |-> None]
         ELSE VaultPostInit(change.stark_key, change.token, vault.balance + change.diff)

InitVault ==
    /\ vda = [vault |-> None, last |-> None]
    /\ pc = "vault_state"
    /\ config = None
    /\ storage = EmptyFactStore
    /\ next_batch_id = None
    /\ stopped = FALSE
    /\ availability_update = None
    /\ signed = None
    /\ restarts = 0
    /\ accepted = {}
    /\ iteration = 0
    /\ writes = {}

vault_fixed == <<config, storage, pc, next_batch_id, stopped, availability_update, signed,
                 restarts, accepted, iteration, writes>>

\* vault = VaultState(stark_key=..., token=..., balance=...); a construction
\* that raises leaves the program with the vault it had.
ConstructVault(stark_key, token, balance) ==
    LET made == VaultPostInit(stark_key, token, balance)
    IN  /\ vda' = [vault |-> IF made.raised = None THEN made.value ELSE vda.vault,
                   last |-> Some([op |-> "construct",
                                  args |-> <<stark_key, token, balance>>,
                                  before |-> vda.vault,
                                  raised |-> made.raised])]
        /\ UNCHANGED vault_fixed

\* vault = vault.add(change); add builds a new vault and assigns nothing to
\* the one it is called on.
AddToVault(change) ==
    /\ vda.vault # None
    /\ LET added == VaultAdd(vda.vault[1], change)
       IN  vda' = [vault |-> IF added.raised = None THEN added.value ELSE vda.vault,
                   last |-> Some([op |-> "add",
                                  args |-> change,
                                  before |-> vda.vault,
                                  raised |-> added.raised])]
    /\ UNCHANGED vault_fixed

NextVault ==
    \/ \E stark_key \in StarkKeys, token \in Tokens, balance \in Balances :
           ConstructVault(stark_key, token, balance)
    \/ \E change \in VaultUpdates : AddToVault(change)

SpecVault == InitVault /\ [][NextVault]_vars

LastAdd == vda.last # None /\ vda.last[1].op = "add"

\* C40: every vault obtained by construction or by adds has a balance in
\* [0, MAX_AMOUNT) that is zero exactly when the key and the token are zero,
\* which is is_empty; an add on a vault with a positive balance fails unless
\* the change has the vault's key and token, an add fails when the new
\* balance leaves the range, and a failed add leaves the vault as it was.
C40_VaultsAreValid ==
    /\ vda.vault # None =>
           LET vault == vda.vault[1]
           IN  /\ 0 <= vault.balance /\ vault.balance < MAX_AMOUNT
               /\ vault.balance = 0 <=> (vault.stark_key = 0 /\ vault.token = 0)
               /\ vault.balance = 0 <=> is_empty(vault)
               /\ vault.balance # 0 => (vault.stark_key # 0 /\ vault.token # 0)
    /\ LastAdd =>
           LET before == vda.last[1].before[1]
               change == vda.last[1].args
               raised == vda.last[1].raised
           IN  /\ (before.balance > 0 /\ (before.stark_key # change.stark_key
                                          \/ before.token # change.token)) => raised # None
               /\ ~(0 <= before.balance + change.diff
                    /\ before.balance + change.diff < MAX_AMOUNT) => raised # None
               /\ raised # None => vda.vault = vda.last[1].before
               /\ raised = None =>
                      vda.vault = Some(VaultState(change.stark_key, change.token,
                                                  before.balance + change.diff))

\* An add with the key of another party was refused on a vault that an
\* earlier add had filled.
C40_Witness ==
    /\ LastAdd
    /\ vda.last[1].raised = Some("INVALID_VAULT")
    /\ vda.last[1].before[1].balance = MAX_AMOUNT - 1
    /\ vda.last[1].before[1].stark_key = 1
    /\ vda.last[1].args.stark_key = 2
    /\ vda.last[1].args.diff = -1
    /\ vda.vault = vda.last[1].before

====
